---- MODULE Spec2Model ----
(***************************************************************************)
(* Lineage resolution engine of lineage_tool (GreenplumLineageParser).     *)
(*                                                                         *)
(* Strings are sequences of one-character strings, so that '.'.join and    *)
(* split('.') are computed and not assumed.  The external SQL library      *)
(* (parse, optimize, lineage graph builder) is represented by its outputs: *)
(* a script carries the statements the parser returns, a statement carries *)
(* the optimized tree (CTE aliases, table references, select list) and the *)
(* dependency graph the builder returns for each output column, or the     *)
(* fact that the call raises.                                              *)
(***************************************************************************)
EXTENDS Integers, Sequences, FiniteSets, TLC

VARIABLES
    graph,            \* SpecTrace: the lineage.Node graph of one column (node 1 is the root)
    t_default_db,     \* SpecTrace: default_db argument
    t_default_schema, \* SpecTrace: default_schema argument
    final_sources,    \* SpecTrace: the set returned by _trace_lineage_recursively
    column_lineage,   \* SpecTrace: sorted(list(final_sources))
    tpc,              \* SpecTrace: "input" before the call, "traced" after it
    tree,             \* SpecDeps: the optimized select (CTE aliases, table references)
    d_default_db,     \* SpecDeps: default_db argument
    d_default_schema, \* SpecDeps: default_schema argument
    depends_on,       \* SpecDeps: sorted(list(dependencies))
    dpc,              \* SpecDeps: "input" before the step, "collected" after it
    schema_mapping,   \* self.schema.mapping: the catalog names of the Catalog, in order
    self_errors,      \* self.errors
    script,           \* sql_script of the running (or last) generate_lineage call
    pc,               \* "idle" between calls, "loop" inside the statement loop
    idx,              \* position of the statement loop in expressions
    call_default_db,  \* default_db of the running call
    call_default_schema, \* default_schema of the running call
    lineage_nodes,    \* lineage_nodes of the running call
    reports,          \* what each finished call handed to its caller
    sql_query,        \* SpecDialect: the statement text handed to parse_one
    parsed_expression, \* SpecDialect: parse_one(sql_query, read=Greenplum)
    generated_sql,    \* SpecDialect: parsed_expression.sql(dialect=Greenplum)
    reparsed_expression, \* SpecDialect: parse_one(generated_sql, read=Greenplum)
    qpc,              \* SpecDialect: "input", "parsed", "generated", "reparsed"
    select_statement, \* SpecStar: the select statement handed to the star expander
    schema_columns,   \* SpecStar: self.schema, the columns of each table as declared
    expanded_select,  \* SpecStar: what _qualify_stars_inside_functions returns
    xpc,              \* SpecStar: "input" before the call, "expanded" after it
    error_dicts,      \* SpecCalls: every dict self.errors was bound to, the current one last
    calls,            \* SpecCalls: the frame of each running generate_lineage call
    returned          \* SpecCalls: the reports handed back (errors held by reference)

tvars == <<graph, t_default_db, t_default_schema, final_sources, column_lineage, tpc>>

dvars == <<tree, d_default_db, d_default_schema, depends_on, dpc>>

mvars == <<schema_mapping, self_errors, script, pc, idx, call_default_db,
           call_default_schema, lineage_nodes, reports>>

qvars == <<sql_query, parsed_expression, generated_sql, reparsed_expression, qpc>>

xvars == <<select_statement, schema_columns, expanded_select, xpc>>

cvars == <<error_dicts, calls, returned>>

vars == <<tvars, dvars, mvars, qvars, xvars, cvars>>

-----------------------------------------------------------------------------
(* Bounds *)

MaxNodes == 4

MaxTables == 3

MaxStmts == 2

MaxCalls == 2

MaxColumns == 2

MaxArgs == 2

DepthBound == 1

-----------------------------------------------------------------------------
(* Strings *)

NoStr == <<>>                 \* None and "" are both falsy in the code

Dot == "."

\* Code point order of the characters used, as Python's str comparison sees it.
Ord(c) ==
    CASE c = "." -> 46
      [] c = "a" -> 97
      [] c = "b" -> 98
      [] c = "c" -> 99
      [] c = "d" -> 100
      [] c = "e" -> 101
      [] c = "i" -> 105
      [] c = "n" -> 110
      [] c = "o" -> 111
      [] c = "p" -> 112
      [] c = "r" -> 114
      [] c = "s" -> 115
      [] c = "t" -> 116
      [] c = "u" -> 117
      [] c = "x" -> 120
      [] c = "y" -> 121
      [] OTHER -> 122

RECURSIVE StrLess(_, _)
StrLess(a, b) ==
    IF a = <<>> THEN b # <<>>
    ELSE IF b = <<>> THEN FALSE
    ELSE IF Head(a) = Head(b) THEN StrLess(Tail(a), Tail(b))
    ELSE Ord(Head(a)) < Ord(Head(b))

\* Mutant: the list is in descending order.
RECURSIVE DescendingList(_)
DescendingList(S) ==
    IF S = {} THEN <<>>
    ELSE LET m == CHOOSE x \in S : \A y \in S \ {x} : StrLess(y, x)
         IN  <<m>> \o DescendingList(S \ {m})

\* sorted(list(S)) for a set S of strings
RECURSIVE SortedList(_)
SortedList(S) ==
    IF S = {} THEN <<>>
    ELSE LET m == CHOOSE x \in S : \A y \in S \ {x} : StrLess(x, y)
         IN  <<m>> \o SortedList(S \ {m})

\* ".".join(parts)
RECURSIVE Join(_)
Join(parts) ==
    IF parts = <<>> THEN <<>>
    ELSE IF Len(parts) = 1 THEN parts[1]
    ELSE parts[1] \o <<Dot>> \o Join(Tail(parts))

\* s.split('.')[-1]
RECURSIVE LastSegment(_)
LastSegment(s) ==
    IF s = <<>> THEN <<>>
    ELSE IF s[Len(s)] = Dot THEN <<>>
    ELSE LastSegment(SubSeq(s, 1, Len(s) - 1)) \o <<s[Len(s)]>>

-----------------------------------------------------------------------------
(* _get_table_fqn *)

Truthy(parts) == SelectSeq(parts, LAMBDA p : p # NoStr)

\* Mutant: the absent parts are joined as empty segments.
get_table_fqn_padded(table_expr, default_db, default_schema) ==
    LET catalog == IF table_expr.catalog # NoStr THEN table_expr.catalog ELSE default_db
        schema  == IF table_expr.db # NoStr THEN table_expr.db ELSE default_schema
        table   == table_expr.name
    IN  Join(<<catalog, schema, table>>)

get_table_fqn(table_expr, default_db, default_schema) ==
    LET catalog == IF table_expr.catalog # NoStr THEN table_expr.catalog ELSE default_db
        schema  == IF table_expr.db # NoStr THEN table_expr.db ELSE default_schema
        table   == table_expr.name
    IN  Join(Truthy(<<catalog, schema, table>>))

-----------------------------------------------------------------------------
(* _trace_lineage_recursively *)

\* Mutant: a column reference is taken for a source as well.
IsTableExpression_OrColumn(node) == node.expression.type \in {"Table", "Column"}

\* isinstance(parent_node.expression, exp.Table)
IsTableExpression(node) == node.expression.type = "Table"

SourceColumn(node, default_db, default_schema) ==
    get_table_fqn(node.expression, default_db, default_schema)
        \o <<Dot>> \o LastSegment(node.name)

\* Mutant: the walk goes on beneath a table node.
RECURSIVE trace_beneath_tables(_, _, _, _)
trace_beneath_tables(g, lineage_node, default_db, default_schema) ==
    UNION { (IF IsTableExpression(g[p])
             THEN { SourceColumn(g[p], default_db, default_schema) }
             ELSE {})
            \cup trace_beneath_tables(g, p, default_db, default_schema)
          : p \in g[lineage_node].downstream }

RECURSIVE trace_lineage_recursively(_, _, _, _)
trace_lineage_recursively(g, lineage_node, default_db, default_schema) ==
    UNION { IF IsTableExpression(g[p])
            THEN { SourceColumn(g[p], default_db, default_schema) }
            ELSE trace_lineage_recursively(g, p, default_db, default_schema)
          : p \in g[lineage_node].downstream }

RECURSIVE Sum(_, _)
Sum(S, count) ==
    IF S = {} THEN 0
    ELSE LET x == CHOOSE y \in S : TRUE
         IN  count[x] + Sum(S \ {x}, count)

\* How many times a call on lineage_node calls _trace_lineage_recursively on
\* node x (itself counted): once for every path of recursive calls to x.
RECURSIVE trace_calls(_, _, _)
trace_calls(g, lineage_node, x) ==
    (IF lineage_node = x THEN 1 ELSE 0)
    + Sum({ p \in g[lineage_node].downstream : ~IsTableExpression(g[p]) },
          [p \in DOMAIN g |-> trace_calls(g, p, x)])

-----------------------------------------------------------------------------
(* Table-level dependencies of _process_create_statement                   *)

\* Mutant: every table reference of the tree is kept.
KeepAllTables(optimized_select) == optimized_select.tables

\* t for t in optimized_select.find_all(exp.Table) if t.this.name not in cte_names
NonCteTables(optimized_select) ==
    { t \in optimized_select.tables : t.name \notin optimized_select.ctes }

Dependencies(optimized_select, default_db, default_schema) ==
    { get_table_fqn(t, default_db, default_schema)
        : t \in NonCteTables(optimized_select) }

-----------------------------------------------------------------------------
(* Dependency graphs returned by lineage.lineage                           *)

TableExpr(catalog, db, name) ==
    [type |-> "Table", catalog |-> catalog, db |-> db, name |-> name]

\* The expression of a node that is not a table: the projection of a CTE or
\* derived table (Column, Alias) or an unknown source (Placeholder).
OtherExpr(type, name) ==
    [type |-> type, catalog |-> NoStr, db |-> NoStr, name |-> name]

\* role: what the node stands for in the statement ("base" a Catalog table
\* column, "cte" an output column of a CTE, "expr" a computed expression,
\* "unknown" a column whose source the builder did not find).
ShapeBaseT ==
    [role |-> "base", name |-> <<"t", ".", "a">>,
     expression |-> TableExpr(<<"d">>, <<"s">>, <<"t">>)]

ShapeBaseU ==
    [role |-> "base", name |-> <<"x", ".", "b">>,
     expression |-> TableExpr(NoStr, NoStr, <<"u">>)]

ShapeCte ==
    [role |-> "cte", name |-> <<"c", ".", "a">>,
     expression |-> OtherExpr("Column", <<"a">>)]

ShapeExpr ==
    [role |-> "expr", name |-> <<"n">>,
     expression |-> OtherExpr("Alias", <<"n">>)]

ShapeUnknown ==
    [role |-> "unknown", name |-> <<"p", ".", "a">>,
     expression |-> OtherExpr("Placeholder", NoStr)]

NodeShapes == { ShapeBaseT, ShapeBaseU, ShapeCte, ShapeExpr, ShapeUnknown }

\* The root is the requested output column: its expression is the projection.
RootShape ==
    [role |-> "expr", name |-> <<"a">>, expression |-> OtherExpr("Alias", <<"a">>)]

\* Acyclic: an edge leads from a node to a node with a larger index.
ForwardPairs(n) == { e \in (1..n) \X (2..n) : e[1] < e[2] }

\* The builder creates a node only as the source of another node: every node
\* but the root has an incoming edge.
EdgeSets(n) ==
    { edges \in SUBSET ForwardPairs(n) :
        \A j \in 2..n : \E i \in 1..(j - 1) : <<i, j>> \in edges }

MakeGraph(n, shapes, edges) ==
    [i \in 1..n |->
        LET sh == IF i = 1 THEN RootShape ELSE shapes[i]
        IN  [role |-> sh.role, name |-> sh.name, expression |-> sh.expression,
             downstream |-> { j \in 2..n : <<i, j>> \in edges }]]

DefaultPairs == { <<NoStr, NoStr>>, <<<<"d">>, <<"e">>>> }

-----------------------------------------------------------------------------
(* SpecTrace: the body of the column loop of _process_create_statement     *)
(* (trace the graph, sort the result) applied to every bounded graph.      *)

TraceIdle ==
    /\ graph = <<>>
    /\ t_default_db = NoStr
    /\ t_default_schema = NoStr
    /\ final_sources = {}
    /\ column_lineage = <<>>
    /\ tpc = "off"

DepsIdle ==
    /\ tree = [ctes |-> {}, tables |-> {}]
    /\ d_default_db = NoStr
    /\ d_default_schema = NoStr
    /\ depends_on = <<>>
    /\ dpc = "off"

DialectIdle ==
    /\ sql_query = <<>>
    /\ parsed_expression = <<>>
    /\ generated_sql = <<>>
    /\ reparsed_expression = <<>>
    /\ qpc = "off"

StarIdle ==
    /\ select_statement = <<>>
    /\ schema_columns = <<>>
    /\ expanded_select = <<>>
    /\ xpc = "off"

CallsIdle ==
    /\ error_dicts = <<>>
    /\ calls = <<>>
    /\ returned = <<>>

MainIdle ==
    /\ schema_mapping = <<>>
    /\ self_errors = <<>>
    /\ script = <<>>
    /\ pc = "off"
    /\ idx = 0
    /\ call_default_db = NoStr
    /\ call_default_schema = NoStr
    /\ lineage_nodes = <<>>
    /\ reports = <<>>

TraceInit ==
    /\ CallsIdle
    /\ DepsIdle
    /\ MainIdle
    /\ DialectIdle
    /\ StarIdle
    /\ \E n \in 1..MaxNodes :
         \E shapes \in [2..n -> NodeShapes], edges \in EdgeSets(n) :
            graph = MakeGraph(n, shapes, edges)
    /\ \E d \in DefaultPairs : t_default_db = d[1] /\ t_default_schema = d[2]
    /\ final_sources = {}
    /\ column_lineage = <<>>
    /\ tpc = "input"

TraceColumn ==
    /\ tpc = "input"
    /\ final_sources' =
          trace_lineage_recursively(graph, 1, t_default_db, t_default_schema)
    /\ column_lineage' = SortedList(final_sources')
    /\ tpc' = "traced"
    /\ UNCHANGED <<graph, t_default_db, t_default_schema>>
    /\ UNCHANGED <<dvars, mvars, qvars, xvars, cvars>>

TraceNext == TraceColumn

SpecTrace == TraceInit /\ [][TraceNext]_vars

-----------------------------------------------------------------------------
(* Claims on the trace *)

\* Nodes entered by paths from the root on which every node before the last
\* one has an expression that is not a table.
RECURSIVE Entered(_, _, _)
Entered(g, R, k) ==
    IF k = 0 THEN R
    ELSE Entered(g,
                 R \cup { j \in DOMAIN g :
                            \E i \in R : /\ g[i].expression.type # "Table"
                                         /\ j \in g[i].downstream },
                 k - 1)

TerminalNodes(g) ==
    { n \in Entered(g, {1}, Len(g)) \ {1} : g[n].expression.type = "Table" }

ExpectedSources(g, ddb, dsch) ==
    { Join(Truthy(<<IF g[n].expression.catalog # NoStr
                       THEN g[n].expression.catalog ELSE ddb,
                    IF g[n].expression.db # NoStr
                       THEN g[n].expression.db ELSE dsch,
                    g[n].expression.name>>))
        \o <<Dot>> \o LastSegment(g[n].name) : n \in TerminalNodes(g) }

\* C1: the set returned by the trace is exactly the set of FQN.column strings
\* of the table nodes reached from the root through non-table nodes only.
C1_TraceExact ==
    tpc = "traced" =>
        final_sources = ExpectedSources(graph, t_default_db, t_default_schema)

\* A table node that has a table node beneath it and a non-table node with
\* two source edges have both been walked.
C1_Witness ==
    /\ tpc = "traced"
    /\ Len(graph) = MaxNodes
    /\ graph[2].expression.type # "Table" /\ graph[2].downstream = {3, 4}
    /\ graph[3].expression.type = "Table" /\ graph[4].expression.type = "Table"
    /\ 4 \in graph[3].downstream
    /\ graph[1].downstream = {2}
    /\ Cardinality(final_sources) = 2

\* What the builder's contract says of every node: the expression of a node
\* is a Table exactly when the node stands for a column of a base table.
BaseSources(g, ddb, dsch) ==
    { Join(Truthy(<<IF g[n].expression.catalog # NoStr
                       THEN g[n].expression.catalog ELSE ddb,
                    IF g[n].expression.db # NoStr
                       THEN g[n].expression.db ELSE dsch,
                    g[n].expression.name>>))
        \o <<Dot>> \o LastSegment(g[n].name)
      : n \in { m \in DOMAIN g : g[m].role = "base" } }

HasCteNode(g) == \E n \in DOMAIN g : g[n].role = "cte"

\* root -> CTE column -> ... -> CTE column -> base table column
IsCteChain(g) ==
    /\ Len(g) >= 3
    /\ \A i \in 1..(Len(g) - 1) : g[i].downstream = {i + 1}
    /\ g[Len(g)].downstream = {}
    /\ \A i \in 2..(Len(g) - 1) : g[i].role = "cte"
    /\ g[Len(g)].role = "base"

\* C2: when the graph of a column has CTE nodes, every entry of the column's
\* lineage list is the FQN.column of a base table node (never a string built
\* from a CTE node), and a chain of CTE nodes traces to the base table column
\* at its end.
C2_NoCteInLineage ==
    (tpc = "traced" /\ HasCteNode(graph)) =>
        /\ \A k \in 1..Len(column_lineage) :
              column_lineage[k] \in BaseSources(graph, t_default_db, t_default_schema)
        /\ IsCteChain(graph) =>
              column_lineage =
                 <<Join(Truthy(<<IF graph[Len(graph)].expression.catalog # NoStr
                                    THEN graph[Len(graph)].expression.catalog
                                    ELSE t_default_db,
                                 IF graph[Len(graph)].expression.db # NoStr
                                    THEN graph[Len(graph)].expression.db
                                    ELSE t_default_schema,
                                 graph[Len(graph)].expression.name>>))
                   \o <<Dot>> \o LastSegment(graph[Len(graph)].name)>>

\* A column selected through two CTEs has been traced to its base column.
C2_Witness ==
    /\ tpc = "traced"
    /\ Len(graph) = MaxNodes
    /\ IsCteChain(graph)
    /\ Len(column_lineage) = 1

-----------------------------------------------------------------------------
(* Optimized trees returned by optimizer.optimize                          *)

\* A table reference of the tree.  denotes: "cte" when the scope resolves the
\* name to a CTE of the statement, "base" when it is a table of the database.
TableRef(catalog, db, name, denotes) ==
    [type |-> "Table", catalog |-> catalog, db |-> db, name |-> name,
     denotes |-> denotes]

CteAliases == { <<"c">>, <<"t">> }

\* A reference to a CTE is an unqualified name; a base table may bear any
\* name, also that of a CTE (WITH t AS (SELECT .. FROM s.t ..) SELECT .. FROM t).
BaseRefs ==
    { TableRef(c, s, n, "base") :
        c \in {NoStr, <<"d">>}, s \in {NoStr, <<"s">>}, n \in {<<"t">>, <<"u">>} }

CteRefs(ctes) == { TableRef(NoStr, NoStr, n, "cte") : n \in ctes }

-----------------------------------------------------------------------------
(* SpecDeps: the table-level step of _process_create_statement applied to  *)
(* every bounded optimized tree.                                           *)

DepsInit ==
    /\ CallsIdle
    /\ TraceIdle
    /\ MainIdle
    /\ DialectIdle
    /\ StarIdle
    /\ \E ctes \in SUBSET CteAliases :
         \E tables \in SUBSET (BaseRefs \cup CteRefs(ctes)) :
            /\ Cardinality(tables) <= MaxTables
            /\ tree = [ctes |-> ctes, tables |-> tables]
    /\ d_default_db \in {NoStr, <<"d">>}
    /\ d_default_schema \in {NoStr, <<"e">>}
    /\ depends_on = <<>>
    /\ dpc = "input"

CollectDependencies ==
    /\ dpc = "input"
    /\ depends_on' = SortedList(Dependencies(tree, d_default_db, d_default_schema))
    /\ dpc' = "collected"
    /\ UNCHANGED <<tree, d_default_db, d_default_schema>>
    /\ UNCHANGED <<tvars, mvars, qvars, xvars, cvars>>

DepsNext == CollectDependencies

SpecDeps == DepsInit /\ [][DepsNext]_vars

-----------------------------------------------------------------------------
(* Claims on depends_on *)

Elements(seq) == { seq[i] : i \in 1..Len(seq) }

RefFqn(t, ddb, dsch) ==
    Join(Truthy(<<IF t.catalog # NoStr THEN t.catalog ELSE ddb,
                  IF t.db # NoStr THEN t.db ELSE dsch,
                  t.name>>))

\* C3: depends_on holds no entry that denotes a CTE of the statement: it does
\* not hold the name a reference to a CTE resolves to, and the table name of
\* no entry is a CTE alias of the statement.
C3_NoCteInDependsOn ==
    dpc = "collected" =>
        /\ \A t \in tree.tables :
              t.denotes = "cte" =>
                 RefFqn(t, d_default_db, d_default_schema) \notin Elements(depends_on)
        /\ \A e \in Elements(depends_on) : LastSegment(e) \notin tree.ctes

\* A tree with a CTE reference and a base table has been processed.
C3_Witness ==
    /\ dpc = "collected"
    /\ \E t \in tree.tables : t.denotes = "cte"
    /\ depends_on # <<>>

\* C4: depends_on holds the FQN of every base table referenced in the tree.
C4_AllBaseTables ==
    dpc = "collected" =>
        \A t \in tree.tables :
           t.denotes = "base" =>
              RefFqn(t, d_default_db, d_default_schema) \in Elements(depends_on)

-----------------------------------------------------------------------------
(* Error map and lineage map *)

ScriptKey == <<"s", "c", "r", "i", "p", "t">>

ScriptMessage == [text |-> "Failed to parse the entire SQL script"]

StatementMessage == [text |-> "Could not analyze statement"]

ColumnMessage(column_name) ==
    [text |-> "Could not trace column", column |-> column_name]

\* d.setdefault(key, []).append(msg)
AppendError(d, key, msg) ==
    IF key \in DOMAIN d THEN [d EXCEPT ![key] = Append(@, msg)]
    ELSE (key :> <<msg>>) @@ d

\* Mutant: the value a key already has is kept.
SetItemOnce(d, key, value) == IF key \in DOMAIN d THEN d ELSE (key :> value) @@ d

\* d[key] = value
SetItem(d, key, value) == (key :> value) @@ d

-----------------------------------------------------------------------------
(* _process_create_statement *)

\* table_expr.catalog, table_expr.db exist on exp.Table only: the target of
\* CREATE TABLE t (a, b) AS ... is an exp.Schema and the access raises.
HasTableAttributes(table_expr) == table_expr.type = "Table"

\* Mutant: the first column that fails ends the loop.
RECURSIVE trace_columns_abort(_, _, _, _, _, _)
trace_columns_abort(optimized_select, i, db, schema, target_table_fqn, acc) ==
    IF i > Len(optimized_select.selects) THEN acc
    ELSE LET column_name == optimized_select.selects[i]
             res == optimized_select.lineage[column_name]
         IN  IF res.raises
             THEN [acc EXCEPT !.errors =
                      AppendError(@, target_table_fqn, ColumnMessage(column_name))]
             ELSE LET fs == trace_lineage_recursively(res.graph, 1, db, schema)
                  IN  trace_columns_abort(optimized_select, i + 1, db, schema,
                         target_table_fqn,
                         IF fs # {}
                         THEN [acc EXCEPT !.columns =
                                 SetItem(@, column_name, [lineage |-> SortedList(fs)])]
                         ELSE acc)

\* Mutant: a column is written whether or not its trace found a source.
RECURSIVE trace_columns_keeps_empty(_, _, _, _, _, _)
trace_columns_keeps_empty(optimized_select, i, db, schema, target_table_fqn, acc) ==
    IF i > Len(optimized_select.selects) THEN acc
    ELSE LET column_name == optimized_select.selects[i]
             res == optimized_select.lineage[column_name]
             next ==
                IF res.raises
                THEN [acc EXCEPT !.errors =
                        AppendError(@, target_table_fqn, ColumnMessage(column_name))]
                ELSE [acc EXCEPT !.columns =
                        SetItem(@, column_name,
                           [lineage |-> SortedList(
                               trace_lineage_recursively(res.graph, 1, db, schema))])]
         IN  trace_columns_keeps_empty(optimized_select, i + 1, db, schema,
                                       target_table_fqn, next)

\* for selection in optimized_select.selects: ...   (acc: errors, columns)
RECURSIVE trace_columns(_, _, _, _, _, _)
trace_columns(optimized_select, i, db, schema, target_table_fqn, acc) ==
    IF i > Len(optimized_select.selects) THEN acc
    ELSE LET column_name == optimized_select.selects[i]
             res == optimized_select.lineage[column_name]
             next ==
                IF res.raises
                THEN [acc EXCEPT !.errors =
                        AppendError(@, target_table_fqn, ColumnMessage(column_name))]
                ELSE LET fs == trace_lineage_recursively(res.graph, 1, db, schema)
                     IN  IF fs # {}
                         THEN [acc EXCEPT !.columns =
                                 SetItem(@, column_name, [lineage |-> SortedList(fs)])]
                         ELSE acc
         IN  trace_columns(optimized_select, i + 1, db, schema, target_table_fqn, next)

\* Mutant: a statement that cannot be analysed still gets a lineage entry.
analysis_failed_keeps_entry(target_table_fqn, errors, nodes) ==
    [raised |-> FALSE,
     errors |-> AppendError(errors, target_table_fqn, StatementMessage),
     lineage_nodes |-> SetItem(nodes, target_table_fqn,
                               [depends_on |-> <<>>, columns |-> <<>>])]

\* Mutant: a failed statement also empties the lineage map.
analysis_failed_clears_nodes(target_table_fqn, errors, nodes) ==
    [raised |-> FALSE,
     errors |-> AppendError(errors, target_table_fqn, StatementMessage),
     lineage_nodes |-> <<>>]

\* except Exception as e: ... return
analysis_failed(target_table_fqn, errors, nodes) ==
    [raised |-> FALSE,
     errors |-> AppendError(errors, target_table_fqn, StatementMessage),
     lineage_nodes |-> nodes]

Raised(errors, nodes) ==
    [raised |-> TRUE, errors |-> errors, lineage_nodes |-> nodes]

\* The target FQN is built in the except clause (line 227) when the optimize
\* pass raises and at line 236 when it does not: on both paths outside a try.
process_create_statement(expr, db, schema, errors, nodes) ==
    IF ~expr.has_expression
    THEN [raised |-> FALSE, errors |-> errors, lineage_nodes |-> nodes]
    ELSE IF ~HasTableAttributes(expr.this)
    THEN Raised(errors, nodes)
    ELSE LET target_table_fqn == get_table_fqn(expr.this, db, schema)
         IN  IF expr.optimize_raises
             THEN analysis_failed(target_table_fqn, errors, nodes)
             ELSE LET done == trace_columns(expr.optimized_select, 1, db, schema,
                                 target_table_fqn,
                                 [errors |-> errors, columns |-> <<>>])
                  IN  [raised |-> FALSE,
                       errors |-> done.errors,
                       lineage_nodes |->
                          SetItem(nodes, target_table_fqn,
                             [depends_on |->
                                 SortedList(Dependencies(expr.optimized_select,
                                                         db, schema)),
                              columns |-> done.columns])]

-----------------------------------------------------------------------------
(* _find_default_schema *)

\* str.upper() of the words that are compared in upper case; the other words
\* of the model are never compared with a keyword in either case.
Upper(name) ==
    CASE name = "search_path" -> "SEARCH_PATH"
      [] name = "statement_timeout" -> "STATEMENT_TIMEOUT"
      [] name = "create" -> "CREATE"
      [] name = "table" -> "TABLE"
      [] name = "with" -> "WITH"
      [] name = "distributed" -> "DISTRIBUTED"
      [] name = "by" -> "BY"
      [] name = "randomly" -> "RANDOMLY"
      [] name = "hash" -> "HASH"
      [] name = "int" -> "INT"
      [] name = "date" -> "DATE"
      [] name = "true" -> "TRUE"
      [] OTHER -> name

\* Mutant: the directive is not looked for.
find_no_schema(expressions, i) == [raised |-> FALSE, value |-> NoStr]

\* Returns [raised, value]: expr.expressions[0] raises on a SET without items.
RECURSIVE find_default_schema(_, _)
find_default_schema(expressions, i) ==
    IF i > Len(expressions) THEN [raised |-> FALSE, value |-> NoStr]
    ELSE LET expr == expressions[i]
         IN  IF expr.kind # "Set"
             THEN find_default_schema(expressions, i + 1)
             ELSE IF expr.items = 0
             THEN [raised |-> TRUE, value |-> NoStr]
             ELSE IF expr.this_type = "EQ" /\ Upper(expr.left) = "SEARCH_PATH"
             THEN [raised |-> FALSE, value |-> expr.right]
             ELSE find_default_schema(expressions, i + 1)

-----------------------------------------------------------------------------
(* Scripts: what sqlglot.parse returns for them, and for each CREATE TABLE *)
(* statement what optimizer.optimize and lineage.lineage return.           *)

Ok(g) == [raises |-> FALSE, graph |-> g]

Fails == [raises |-> TRUE, graph |-> <<>>]

GraphDirectT == MakeGraph(2, (2 :> ShapeBaseT), {<<1, 2>>})

GraphDirectU == MakeGraph(2, (2 :> ShapeBaseU), {<<1, 2>>})

GraphCteChain == MakeGraph(3, (2 :> ShapeCte) @@ (3 :> ShapeBaseT), {<<1, 2>>, <<2, 3>>})

GraphConstant == MakeGraph(1, <<>>, {})

BaseName == <<"b", "a", "s", "e">>

\* The column a of the unqualified table base
ShapeBaseA ==
    [role |-> "base", name |-> BaseName \o <<".", "a">>,
     expression |-> TableExpr(NoStr, NoStr, BaseName)]

GraphDirectBase == MakeGraph(2, (2 :> ShapeBaseA), {<<1, 2>>})

\* The column a of s.t read under the alias y
ShapeBaseST ==
    [role |-> "base", name |-> <<"y", ".", "a">>,
     expression |-> TableExpr(NoStr, <<"s">>, <<"t">>)]

\* Both d.s.t.a and (s.t).a feed the column
GraphTwice == MakeGraph(3, (2 :> ShapeBaseT) @@ (3 :> ShapeBaseST), {<<1, 2>>, <<1, 3>>})

RefT == TableRef(<<"d">>, <<"s">>, <<"t">>, "base")

RefU == TableRef(NoStr, NoStr, <<"u">>, "base")

RefC == TableRef(NoStr, NoStr, <<"c">>, "cte")

RefBase == TableRef(NoStr, NoStr, BaseName, "base")

RefST == TableRef(NoStr, <<"s">>, <<"t">>, "base")

\* SELECT a FROM d.s.t
SelectSimple ==
    [ctes |-> {}, tables |-> {RefT}, selects |-> << <<"a">> >>,
     lineage |-> (<<"a">> :> Ok(GraphDirectT))]

\* WITH c AS (SELECT a FROM d.s.t GROUP BY a) SELECT a, 1 AS n FROM c
SelectThroughCte ==
    [ctes |-> {<<"c">>}, tables |-> {RefT, RefC}, selects |-> << <<"a">>, <<"n">> >>,
     lineage |-> (<<"a">> :> Ok(GraphCteChain)) @@ (<<"n">> :> Ok(GraphConstant))]

\* SELECT <untraceable> AS a, x.b FROM d.s.t, u AS x
SelectColumnFails ==
    [ctes |-> {}, tables |-> {RefT, RefU}, selects |-> << <<"a">>, <<"b">> >>,
     lineage |-> (<<"a">> :> Fails) @@ (<<"b">> :> Ok(GraphDirectU))]

\* SELECT a FROM base
SelectFromBase ==
    [ctes |-> {}, tables |-> {RefBase}, selects |-> << <<"a">> >>,
     lineage |-> (<<"a">> :> Ok(GraphDirectBase))]

\* SELECT t.a + y.a AS a FROM d.s.t AS t, s.t AS y
SelectTwice ==
    [ctes |-> {}, tables |-> {RefT, RefST}, selects |-> << <<"a">> >>,
     lineage |-> (<<"a">> :> Ok(GraphTwice))]

\* WITH t AS (SELECT a FROM s.t GROUP BY a) SELECT a FROM t
SelectThroughCteNamedAsTable ==
    [ctes |-> {<<"t">>}, tables |-> {RefST, TableRef(NoStr, NoStr, <<"t">>, "cte")},
     selects |-> << <<"a">> >>,
     lineage |-> (<<"a">> :>
        Ok(MakeGraph(3, (2 :> [ShapeCte EXCEPT !.name = <<"t", ".", "a">>])
                           @@ (3 :> ShapeBaseST), {<<1, 2>>, <<2, 3>>})))]

NoSelect == [ctes |-> {}, tables |-> {}, selects |-> <<>>, lineage |-> <<>>]

Target(type, name) == [type |-> type, catalog |-> NoStr, db |-> NoStr, name |-> name]

CreateTableAs(this, optimized_select) ==
    [kind |-> "Create", create_kind |-> "TABLE", this |-> this,
     has_expression |-> TRUE, optimize_raises |-> FALSE,
     optimized_select |-> optimized_select]

CreateTableUnanalyzable(this) ==
    [kind |-> "Create", create_kind |-> "TABLE", this |-> this,
     has_expression |-> TRUE, optimize_raises |-> TRUE,
     optimized_select |-> NoSelect]

\* CREATE TABLE o (a INT): no query
CreateTablePlain ==
    [kind |-> "Create", create_kind |-> "TABLE", this |-> Target("Schema", <<"o">>),
     has_expression |-> FALSE, optimize_raises |-> FALSE,
     optimized_select |-> NoSelect]

CreateView ==
    [kind |-> "Create", create_kind |-> "VIEW", this |-> Target("Table", <<"o">>),
     has_expression |-> TRUE, optimize_raises |-> FALSE,
     optimized_select |-> SelectSimple]

SetSearchPath(schema) ==
    [kind |-> "Set", items |-> 1, this_type |-> "EQ", left |-> "search_path",
     right |-> schema]

\* SET with nothing after it: exp.Set with an empty expressions list
SetWithoutItems ==
    [kind |-> "Set", items |-> 0, this_type |-> "None", left |-> "", right |-> NoStr]

Statements ==
    { SetSearchPath(<<"e">>),
      SetSearchPath(<<"s">>),
      SetWithoutItems,
      CreateTableAs(Target("Table", <<"t">>), SelectFromBase),
      CreateTableAs(Target("Table", <<"t">>), SelectTwice),
      CreateTableAs(Target("Table", <<"o">>), SelectSimple),
      CreateTableUnanalyzable(Target("Table", <<"o">>)),
      CreateTableUnanalyzable(Target("Table", <<"p">>)),
      CreateTableUnanalyzable(Target("Schema", <<"p">>)),
      CreateTableAs(Target("Table", <<"p">>), SelectThroughCte),
      CreateTableAs(Target("Table", <<"p">>), SelectColumnFails),
      CreateTableAs(Target("Table", <<"p">>), SelectThroughCteNamedAsTable),
      CreateTableAs(Target("Schema", <<"o">>), SelectSimple),
      CreateTablePlain,
      CreateView }

ParsedScript(expressions) == [parse_raises |-> FALSE, expressions |-> expressions]

UnparsableScript == [parse_raises |-> TRUE, expressions |-> <<>>]

Scripts ==
    { ParsedScript(e) : e \in UNION { [1..n -> Statements] : n \in 0..MaxStmts } }
        \cup { UnparsableScript }

\* A second file of the directory, with a table of its own.
OtherFile ==
    ParsedScript(<< CreateTableAs(Target("Table", <<"p">>), SelectThroughCte) >>)

\* The next file handed to the same parser: the same script again, one that
\* does not parse, or the second file.
NextScripts ==
    IF reports = <<>> THEN Scripts
    ELSE { reports[Len(reports)].script, UnparsableScript, OtherFile }

-----------------------------------------------------------------------------
(* generate_lineage *)

\* Mutant: the error map of the previous call is kept.
KeepErrors(errors) == errors

\* self.errors = {}
ResetErrors(errors) == <<>>

\* _build_final_output (date_parsed left out)
build_final_output(s, errors, nodes) ==
    [script |-> s, raised |-> FALSE, errors |-> errors, lineage |-> nodes]

\* An exception leaves generate_lineage: the caller gets no report.
NoReport(s) == [script |-> s, raised |-> TRUE, errors |-> <<>>, lineage |-> <<>>]

FirstCatalog(mapping) == IF mapping = <<>> THEN NoStr ELSE mapping[1]

Init ==
    /\ CallsIdle
    /\ TraceIdle
    /\ DepsIdle
    /\ DialectIdle
    /\ StarIdle
    /\ schema_mapping \in { <<>>, << <<"d">> >> }
    /\ self_errors = <<>>
    /\ script = UnparsableScript
    /\ pc = "idle"
    /\ idx = 0
    /\ call_default_db = NoStr
    /\ call_default_schema = NoStr
    /\ lineage_nodes = <<>>
    /\ reports = <<>>

\* Lines 326-338: reset, parse, defaults.
Begin ==
    /\ pc = "idle"
    /\ Len(reports) < MaxCalls
    /\ \E s \in NextScripts :
         LET errors0 == ResetErrors(self_errors)
             found == find_default_schema(s.expressions, 1)
         IN  /\ script' = s
             /\ lineage_nodes' = <<>>
             /\ idx' = 1
             /\ IF s.parse_raises
                THEN /\ self_errors' = SetItem(errors0, ScriptKey, <<ScriptMessage>>)
                     /\ reports' = Append(reports,
                                     build_final_output(s, self_errors', <<>>))
                     /\ pc' = "idle"
                     /\ UNCHANGED <<call_default_db, call_default_schema>>
                ELSE IF found.raised
                THEN /\ self_errors' = errors0
                     /\ reports' = Append(reports, NoReport(s))
                     /\ pc' = "idle"
                     /\ UNCHANGED <<call_default_db, call_default_schema>>
                ELSE /\ self_errors' = errors0
                     /\ call_default_schema' = found.value
                     /\ call_default_db' = FirstCatalog(schema_mapping)
                     /\ pc' = "loop"
                     /\ UNCHANGED reports
    /\ UNCHANGED <<schema_mapping, tvars, dvars, qvars, xvars, cvars>>

\* isinstance(expr, exp.Create) and expr.args.get("kind") == "TABLE"
IsCreateTable(expr) == expr.kind = "Create" /\ expr.create_kind = "TABLE"

\* Lines 340-344: one turn of the statement loop.
Statement ==
    /\ pc = "loop"
    /\ idx <= Len(script.expressions)
    /\ LET expr == script.expressions[idx]
           out == IF IsCreateTable(expr)
                  THEN process_create_statement(expr, call_default_db, call_default_schema,
                                                self_errors, lineage_nodes)
                  ELSE [raised |-> FALSE, errors |-> self_errors,
                        lineage_nodes |-> lineage_nodes]
       IN  /\ self_errors' = out.errors
           /\ lineage_nodes' = out.lineage_nodes
           /\ IF out.raised
              THEN /\ reports' = Append(reports, NoReport(script))
                   /\ pc' = "idle"
                   /\ idx' = idx
              ELSE /\ idx' = idx + 1
                   /\ UNCHANGED <<reports, pc>>
    /\ UNCHANGED <<schema_mapping, script, call_default_db, call_default_schema,
                   tvars, dvars, qvars, xvars, cvars>>

\* Line 346.
Return ==
    /\ pc = "loop"
    /\ idx > Len(script.expressions)
    /\ reports' = Append(reports,
                     build_final_output(script, self_errors, lineage_nodes))
    /\ pc' = "idle"
    /\ UNCHANGED <<schema_mapping, self_errors, script, idx, call_default_db,
                   call_default_schema, lineage_nodes, tvars, dvars, qvars, xvars, cvars>>

Next == Begin \/ Statement \/ Return

Spec == Init /\ [][Next]_vars

-----------------------------------------------------------------------------
(* Claims on generate_lineage *)

\* A CREATE TABLE ... AS statement: one that _process_create_statement analyses.
Analysed(expr) ==
    expr.kind = "Create" /\ expr.create_kind = "TABLE" /\ expr.has_expression

AnalysedIn(sc) ==
    { i \in 1..Len(sc.expressions) : Analysed(sc.expressions[i]) }

\* The default schema of a script that has been scanned without an exception.
ScriptSchema(sc) == find_default_schema(sc.expressions, 1).value

ScanRaises(sc) == find_default_schema(sc.expressions, 1).raised

TargetKey(sc, i) ==
    RefFqn(sc.expressions[i].this, FirstCatalog(schema_mapping), ScriptSchema(sc))

ColumnFails(sel, c) == sel.lineage[c].raises

ColumnSources(sc, sel, c) ==
    ExpectedSources(sel.lineage[c].graph, FirstCatalog(schema_mapping), ScriptSchema(sc))

\* The columns map of a statement all of whose traceable columns are written.
CompleteColumns(sc, sel, columns) ==
    /\ DOMAIN columns =
          { c \in Elements(sel.selects) :
               ~ColumnFails(sel, c) /\ ColumnSources(sc, sel, c) # {} }
    /\ \A c \in DOMAIN columns :
          columns[c] = [lineage |-> SortedList(ColumnSources(sc, sel, c))]

\* C5: no exception leaves generate_lineage: every call hands back a report.
C5_NeverRaises ==
    \A k \in 1..Len(reports) : ~reports[k].raised

\* C6: when the optimize pass fails for one CREATE TABLE statement that the
\* loop reaches and every external call made for the other statements succeeds,
\* the call returns a report with exactly one message, under the failing
\* statement's target FQN and nowhere else, nothing of that statement in
\* lineage, and a complete lineage entry for every other statement.
C6_StatementFailureIsolated ==
    \A k \in 1..Len(reports) :
       LET r  == reports[k]
           sc == r.script
           A  == AnalysedIn(sc)
           F  == { i \in A : sc.expressions[i].optimize_raises }
       IN  ( /\ ~sc.parse_raises
             /\ ~ScanRaises(sc)
             /\ Cardinality(F) = 1
             /\ \A i \in F : \A j \in A : j < i => sc.expressions[j].this.type = "Table"
             /\ \A j \in A \ F :
                   \A c \in Elements(sc.expressions[j].optimized_select.selects) :
                      ~ColumnFails(sc.expressions[j].optimized_select, c) )
           => /\ ~r.raised
              /\ \A i \in F :
                   /\ DOMAIN r.errors = {TargetKey(sc, i)}
                   /\ Len(r.errors[TargetKey(sc, i)]) = 1
                   /\ (\A j \in A \ F : TargetKey(sc, j) # TargetKey(sc, i))
                         => TargetKey(sc, i) \notin DOMAIN r.lineage
              /\ \A j \in A \ F :
                   /\ TargetKey(sc, j) \in DOMAIN r.lineage
                   /\ (\A j2 \in A \ F : j2 > j => TargetKey(sc, j2) # TargetKey(sc, j))
                         => CompleteColumns(sc, sc.expressions[j].optimized_select,
                                            r.lineage[TargetKey(sc, j)].columns)

FailedColumns(sel) == SelectSeq(sel.selects, LAMBDA c : ColumnFails(sel, c))

ErrorsUnder(d, key) == IF key \in DOMAIN d THEN d[key] ELSE <<>>

\* The statement the loop is about to analyse has a column whose trace fails.
AtColumnFailure ==
    /\ pc = "loop"
    /\ idx <= Len(script.expressions)
    /\ Analysed(script.expressions[idx])
    /\ script.expressions[idx].this.type = "Table"
    /\ ~script.expressions[idx].optimize_raises
    /\ FailedColumns(script.expressions[idx].optimized_select) # <<>>

\* C7: analysing a statement with a column whose lineage call fails appends
\* one message naming that column under the statement's target FQN, leaves
\* every other error list alone, goes on with the statement loop, and writes
\* the statement's lineage entry with depends_on and with every remaining
\* column that has sources, the failed column left out.
C7_ColumnFailureIsolated ==
    [][ AtColumnFailure =>
          LET sel    == script.expressions[idx].optimized_select
              key    == TargetKey(script, idx)
              failed == FailedColumns(sel)
          IN  /\ pc' = "loop" /\ idx' = idx + 1
              /\ ErrorsUnder(self_errors', key) =
                    ErrorsUnder(self_errors, key)
                       \o [n \in 1..Len(failed) |-> ColumnMessage(failed[n])]
              /\ \A other \in (DOMAIN self_errors' \cup DOMAIN self_errors) \ {key} :
                    ErrorsUnder(self_errors', other) = ErrorsUnder(self_errors, other)
              /\ key \in DOMAIN lineage_nodes'
              /\ lineage_nodes'[key].depends_on =
                    SortedList({ RefFqn(t, call_default_db, call_default_schema)
                                   : t \in { u \in sel.tables : u.denotes = "base" } })
              /\ CompleteColumns(script, sel, lineage_nodes'[key].columns)
              /\ \A c \in Elements(failed) : c \notin DOMAIN lineage_nodes'[key].columns
      ]_vars

\* The statement just analysed lost column a and kept column b.
C7_Witness ==
    /\ pc = "loop"
    /\ idx > 1
    /\ Analysed(script.expressions[idx - 1])
    /\ script.expressions[idx - 1].this.type = "Table"
    /\ script.expressions[idx - 1].optimized_select = SelectColumnFails
    /\ TargetKey(script, idx - 1) \in DOMAIN lineage_nodes
    /\ DOMAIN lineage_nodes[TargetKey(script, idx - 1)].columns = { <<"b">> }
    /\ TargetKey(script, idx - 1) \in DOMAIN self_errors

\* C8: when the parser fails on the script the report has the single error
\* key "script" with a single message and an empty lineage map.
C8_ParseFailure ==
    \A k \in 1..Len(reports) :
       reports[k].script.parse_raises =>
          /\ ~reports[k].raised
          /\ reports[k].errors = (ScriptKey :> <<ScriptMessage>>)
          /\ reports[k].lineage = <<>>

\* An unparsable script has been analysed after a script that left errors.
C8_Witness ==
    /\ Len(reports) = 2
    /\ reports[2].script.parse_raises
    /\ ~reports[1].script.parse_raises
    /\ ~reports[1].raised
    /\ reports[1].errors # <<>>

\* What C9 says of statement i of the script of report r.
FailedIsAbsent(r, i) ==
    LET sc   == r.script
        expr == sc.expressions[i]
        key  == TargetKey(sc, i)
    IN  IF expr.optimize_raises
        THEN /\ key \notin DOMAIN r.lineage
             /\ ErrorsUnder(r.errors, key) # <<>>
        ELSE \A c \in Elements(FailedColumns(expr.optimized_select)) :
                /\ key \in DOMAIN r.lineage => c \notin DOMAIN r.lineage[key].columns
                /\ ColumnMessage(c) \in Elements(ErrorsUnder(r.errors, key))

\* C9 as stated: in every report, a table whose statement analysis failed has
\* no key in lineage and a message in errors, and a column whose trace failed
\* has no entry in its table's columns map and a message under the table's key.
C9_FailedIsAbsent ==
    \A k \in 1..Len(reports) :
       ~reports[k].raised =>
          \A i \in AnalysedIn(reports[k].script) : FailedIsAbsent(reports[k], i)

\* C9 amended: the same, for the statements whose target FQN no other CREATE
\* TABLE AS statement of the script shares.
C9_FailedIsAbsentWhenKeyUnshared ==
    \A k \in 1..Len(reports) :
       ~reports[k].raised =>
          \A i \in AnalysedIn(reports[k].script) :
             (\A j \in AnalysedIn(reports[k].script) \ {i} :
                 TargetKey(reports[k].script, j) # TargetKey(reports[k].script, i))
                => FailedIsAbsent(reports[k], i)

\* A report of a script with a failed statement and a failed column under
\* two different target tables.
C9_Witness ==
    \E k \in 1..Len(reports) :
       /\ ~reports[k].raised
       /\ Len(reports[k].script.expressions) = 2
       /\ reports[k].script.expressions[1].kind = "Create"
       /\ reports[k].script.expressions[1].optimize_raises
       /\ reports[k].script.expressions[2].kind = "Create"
       /\ reports[k].script.expressions[2].optimized_select = SelectColumnFails
       /\ Cardinality(DOMAIN reports[k].errors) = 2
       /\ Cardinality(DOMAIN reports[k].lineage) = 1

\* C10: two calls with the same script (and the parser's one Catalog) hand
\* back the same errors and the same lineage; the first call is the call on a
\* fresh instance.
C10_Idempotent ==
    \A i, j \in 1..Len(reports) :
       reports[i].script = reports[j].script =>
          /\ reports[i].raised = reports[j].raised
          /\ reports[i].errors = reports[j].errors
          /\ reports[i].lineage = reports[j].lineage

\* The same script has been analysed twice and left errors both times.
C10_Witness ==
    /\ Len(reports) = 2
    /\ reports[1].script = reports[2].script
    /\ ~reports[2].raised
    /\ ~reports[2].script.parse_raises
    /\ reports[2].errors # <<>>
    /\ reports[2].lineage # <<>>

-----------------------------------------------------------------------------
(* Greenplum dialect (Greenplum.Parser, Greenplum.Generator).              *)
(* A statement text is a sequence of lexemes, blanks included; the parts   *)
(* inherited from Postgres.Parser and Postgres.Generator are modelled for  *)
(* the CREATE TABLE statements of the dialect's round-trip test.           *)

Blank == " "

\* str.lower() of a lexeme
Lower(l) ==
    CASE l = "CREATE" -> "create"
      [] l = "TABLE" -> "table"
      [] l = "WITH" -> "with"
      [] l = "DISTRIBUTED" -> "distributed"
      [] l = "BY" -> "by"
      [] l = "RANDOMLY" -> "randomly"
      [] l = "HASH" -> "hash"
      [] l = "INT" -> "int"
      [] l = "DATE" -> "date"
      [] l = "TRUE" -> "true"
      [] OTHER -> l

LowerText(sql) == [i \in 1..Len(sql) |-> Lower(sql[i])]

\* The tokenizer drops the blanks.
Tokenize(sql) == SelectSeq(sql, LAMBDA l : l # Blank)

\* self._curr.text ("" at the end of the input)
Curr(tokens, pos) == IF pos <= Len(tokens) THEN tokens[pos] ELSE ""

\* self._match_text_seq(text): the current token's text in upper case is text
match_text_seq(tokens, pos, text) == Upper(Curr(tokens, pos)) = text

None == [type |-> "None"]

\* exp.Paren for (c), exp.Tuple for (c1, c2, ..)
Parenthesized(names) ==
    [type |-> IF Len(names) = 1 THEN "Paren" ELSE "Tuple", expressions |-> names]

DistributedByProperty(expressions, kind, order) ==
    [type |-> "DistributedByProperty", expressions |-> expressions,
     kind |-> kind, buckets |-> None, order |-> order]

Property(this, value) == [type |-> "Property", this |-> this, value |-> value]

ColumnDef(this, kind) == [type |-> "ColumnDef", this |-> this, kind |-> kind]

Create(this, columns, properties) ==
    [type |-> "Create", kind |-> "TABLE", this |-> this, columns |-> columns,
     properties |-> properties]

\* The statement parser's fallback when tokens are left over.
Command(tokens) == [type |-> "Command", this |-> tokens]

\* name, name, .. up to the closing parenthesis; pos is at the first name
RECURSIVE parse_csv(_, _)
parse_csv(tokens, pos) ==
    IF Curr(tokens, pos + 1) = ","
    THEN LET rest == parse_csv(tokens, pos + 2)
         IN  [items |-> <<Curr(tokens, pos)>> \o rest.items, pos |-> rest.pos]
    ELSE [items |-> <<Curr(tokens, pos)>>, pos |-> pos + 1]

\* self._parse_bracket(self._parse_csv(self._parse_column))[0] at "(":
\* _parse_column takes the whole parenthesis as one expression.
parse_column(tokens, pos) ==
    LET inner == parse_csv(tokens, pos + 1)
    IN  [node |-> Parenthesized(inner.items), pos |-> inner.pos + 1]

\* self._parse_order() where no ORDER BY follows
parse_order(tokens, pos) == None

\* pos is behind the keyword DISTRIBUTED
parse_distributed_property(tokens, pos) ==
    IF match_text_seq(tokens, pos, "BY")
    THEN LET columns == parse_column(tokens, pos + 1)
         IN  [node |-> DistributedByProperty(columns.node, "BY",
                                             parse_order(tokens, columns.pos)),
              pos |-> columns.pos]
    ELSE IF match_text_seq(tokens, pos, "RANDOMLY")
    THEN [node |-> DistributedByProperty(None, "RANDOMLY",
                                         parse_order(tokens, pos + 1)),
          pos |-> pos + 1]
    ELSE [node |-> DistributedByProperty(None, "BY", parse_order(tokens, pos)),
          pos |-> pos]

\* The value of a storage option: a boolean literal or a bare word.
parse_property_value(text) ==
    IF Upper(text) = "TRUE" THEN [type |-> "Boolean", this |-> TRUE]
    ELSE [type |-> "Var", this |-> text]

\* key = value, key = value, .. ); pos is at the first key
RECURSIVE parse_wrapped_properties(_, _)
parse_wrapped_properties(tokens, pos) ==
    LET prop == Property(Curr(tokens, pos),
                         parse_property_value(Curr(tokens, pos + 2)))
    IN  IF Curr(tokens, pos + 3) = ","
        THEN LET rest == parse_wrapped_properties(tokens, pos + 4)
             IN  [items |-> <<prop>> \o rest.items, pos |-> rest.pos]
        ELSE [items |-> <<prop>>, pos |-> pos + 4]

\* PROPERTY_PARSERS: the keyword at pos selects the property parser.
RECURSIVE parse_properties(_, _)
parse_properties(tokens, pos) ==
    IF match_text_seq(tokens, pos, "WITH")
    THEN LET with == parse_wrapped_properties(tokens, pos + 2)
             rest == parse_properties(tokens, with.pos)
         IN  [items |-> with.items \o rest.items, pos |-> rest.pos]
    ELSE IF match_text_seq(tokens, pos, "DISTRIBUTED")
    THEN LET dist == parse_distributed_property(tokens, pos + 1)
             rest == parse_properties(tokens, dist.pos)
         IN  [items |-> <<dist.node>> \o rest.items, pos |-> rest.pos]
    ELSE [items |-> <<>>, pos |-> pos]

\* name TYPE, name TYPE, .. ); pos is at the first name
RECURSIVE parse_column_defs(_, _)
parse_column_defs(tokens, pos) ==
    LET def == ColumnDef(Curr(tokens, pos), Upper(Curr(tokens, pos + 1)))
    IN  IF Curr(tokens, pos + 2) = ","
        THEN LET rest == parse_column_defs(tokens, pos + 3)
             IN  [items |-> <<def>> \o rest.items, pos |-> rest.pos]
        ELSE [items |-> <<def>>, pos |-> pos + 3]

\* parse_one(sql, read=Greenplum) for CREATE TABLE name ( .. ) ..
parse_one(sql) ==
    LET tokens == Tokenize(sql)
        defs   == parse_column_defs(tokens, 5)
        props  == parse_properties(tokens, defs.pos)
    IN  IF props.pos <= Len(tokens) THEN Command(tokens)
        ELSE Create(tokens[3], defs.items, props.items)

\* sep.join(parts) for texts
RECURSIVE JoinText(_, _)
JoinText(parts, sep) ==
    IF parts = <<>> THEN <<>>
    ELSE IF Len(parts) = 1 THEN parts[1]
    ELSE parts[1] \o sep \o JoinText(Tail(parts), sep)

Comma == <<",", Blank>>

\* self.sql(expression, key) for the arguments of the property
sql(node) ==
    IF node.type = "None" THEN <<>>
    ELSE <<"(">> \o JoinText([i \in 1..Len(node.expressions) |->
                                 <<node.expressions[i]>>], Comma) \o <<")">>

\* Mutant: the clause is generated as DISTRIBUTED BY whatever its kind.
distributedbyproperty_sql_by(expression) ==
    <<"DISTRIBUTED", Blank, "BY", Blank>>
        \o sql(expression.expressions) \o sql(expression.order)

distributedbyproperty_sql(expression) ==
    LET kind  == expression.kind
        order == sql(expression.order)
    IN  IF kind = "RANDOMLY"
        THEN <<"DISTRIBUTED", Blank, "RANDOMLY", Blank>> \o order
        ELSE <<"DISTRIBUTED", Blank, "BY", Blank>>
                \o sql(expression.expressions) \o order

property_sql(expression) ==
    <<expression.this, "=">>
        \o IF expression.value.type = "Boolean" THEN <<"TRUE">>
           ELSE <<expression.value.this>>

columndef_sql(expression) == <<expression.this, Blank, expression.kind>>

OfType(properties, type) == SelectSeq(properties, LAMBDA p : p.type = type)

\* PROPERTIES_LOCATION: the storage options stay behind the column list, the
\* DISTRIBUTED clause goes behind the (absent) query.
create_sql(expression) ==
    LET with == OfType(expression.properties, "Property")
        post == OfType(expression.properties, "DistributedByProperty")
    IN  <<"CREATE", Blank, "TABLE", Blank, expression.this, Blank, "(">>
        \o JoinText([i \in 1..Len(expression.columns) |->
                        columndef_sql(expression.columns[i])], Comma)
        \o <<")">>
        \o (IF with = <<>> THEN <<>>
            ELSE <<Blank, "WITH", Blank, "(">>
                 \o JoinText([i \in 1..Len(with) |-> property_sql(with[i])], Comma)
                 \o <<")">>)
        \o (IF post = <<>> THEN <<>>
            ELSE <<Blank>>
                 \o JoinText([i \in 1..Len(post) |->
                                 distributedbyproperty_sql(post[i])], <<Blank>>))

\* str.strip() of the generated text
RECURSIVE Strip(_)
Strip(text) ==
    IF text = <<>> THEN <<>>
    ELSE IF Head(text) = Blank THEN Strip(Tail(text))
    ELSE IF text[Len(text)] = Blank THEN Strip(SubSeq(text, 1, Len(text) - 1))
    ELSE text

\* expression.sql(dialect=Greenplum)
generate(expression) == Strip(create_sql(expression))

-----------------------------------------------------------------------------
(* Statements of the round-trip test and statements with an incomplete     *)
(* DISTRIBUTED clause.                                                     *)

ColumnLists ==
    { << <<"id", Blank, "INT">> >>,
      << <<"id", Blank, "INT">>, <<"ts", Blank, "DATE">> >> }

WithClauses ==
    { <<>>,
      <<Blank, "WITH", Blank, "(", "appendonly", "=", "true", ")">>,
      <<Blank, "WITH", Blank, "(", "appendonly", "=", "true", ",", Blank,
        "orientation", "=", "column", ")">> }

DistributedClauses ==
    { <<>>,
      <<Blank, "DISTRIBUTED", Blank, "BY", Blank, "(", "id", ")">>,
      <<Blank, "DISTRIBUTED", Blank, "BY", Blank, "(", "id", ",", Blank, "ts", ")">>,
      <<Blank, "DISTRIBUTED", Blank, "RANDOMLY">> }

IncompleteClauses ==
    { <<Blank, "DISTRIBUTED">>,
      <<Blank, "DISTRIBUTED", Blank, "HASH">> }

CreateTableText(columns, with, distributed) ==
    <<"CREATE", Blank, "TABLE", Blank, "sales", Blank, "(">>
        \o JoinText(columns, Comma) \o <<")">> \o with \o distributed

\* Each statement as written in the test and in lower case.
InEitherCase(texts) == texts \cup { LowerText(t) : t \in texts }

GREENPLUM_TEST_CASES ==
    InEitherCase({ CreateTableText(c, w, d) :
                     c \in ColumnLists, w \in WithClauses, d \in DistributedClauses })

IncompleteQueries ==
    InEitherCase({ CreateTableText(c, w, d) :
                     c \in ColumnLists, w \in WithClauses, d \in IncompleteClauses })

-----------------------------------------------------------------------------
(* SpecDialect: test_greenplum_dialect_roundtrip, followed by a second     *)
(* parse of the generated text.                                            *)

DialectInit ==
    /\ CallsIdle
    /\ TraceIdle
    /\ DepsIdle
    /\ MainIdle
    /\ StarIdle
    /\ sql_query \in GREENPLUM_TEST_CASES \cup IncompleteQueries
    /\ parsed_expression = <<>>
    /\ generated_sql = <<>>
    /\ reparsed_expression = <<>>
    /\ qpc = "input"

Parse ==
    /\ qpc = "input"
    /\ parsed_expression' = parse_one(sql_query)
    /\ qpc' = "parsed"
    /\ UNCHANGED <<sql_query, generated_sql, reparsed_expression>>
    /\ UNCHANGED <<tvars, dvars, mvars, xvars, cvars>>

\* The test stops at a generic command.
Generate ==
    /\ qpc = "parsed"
    /\ parsed_expression.type # "Command"
    /\ generated_sql' = generate(parsed_expression)
    /\ qpc' = "generated"
    /\ UNCHANGED <<sql_query, parsed_expression, reparsed_expression>>
    /\ UNCHANGED <<tvars, dvars, mvars, xvars, cvars>>

Reparse ==
    /\ qpc = "generated"
    /\ reparsed_expression' = parse_one(generated_sql)
    /\ qpc' = "reparsed"
    /\ UNCHANGED <<sql_query, parsed_expression, generated_sql>>
    /\ UNCHANGED <<tvars, dvars, mvars, xvars, cvars>>

DialectNext == Parse \/ Generate \/ Reparse

SpecDialect == DialectInit /\ [][DialectNext]_vars

-----------------------------------------------------------------------------
(* Claims on the dialect *)

C12_IncompleteClauseIsError ==
    (sql_query \in IncompleteQueries /\ qpc # "input") =>
        parsed_expression.type = "ParseError"

-----------------------------------------------------------------------------
(* _qualify_stars_inside_functions, _replace_star_args *)

\* exp.Star in the place of a column name
Star == <<"*">>

\* exp.Column(this=this, table=table); alias.* is a Column whose this is a Star
Column(this, table) == [type |-> "Column", this |-> this, table |-> table]

TupleOf(expressions) == [type |-> "Tuple", expressions |-> expressions]

\* An exp.Func: the arguments it keeps in args["expressions"] and, for the
\* functions that have one, the argument it keeps in args["this"].
Func(this, expressions) == [type |-> "Func", this |-> this, expressions |-> expressions]

\* {cte.alias: {s.alias_or_name for s in cte.this.selects} ...}
cte_definitions(expr) ==
    [a \in DOMAIN expr.ctes |-> Elements(expr.ctes[a])]

\* self.schema.find(table): the columns of the table, none when the schema
\* does not know it (SchemaError: continue).
schema_find(schema, table) ==
    IF table.name \in DOMAIN schema THEN Elements(schema[table.name]) ELSE {}

\* for table in expression.find_all(exp.Table): ...
RECURSIVE scope_columns_from(_, _, _, _)
scope_columns_from(expr, schema, i, scope_columns) ==
    IF i > Len(expr.tables) THEN scope_columns
    ELSE LET table       == expr.tables[i]
             alias       == table.alias_or_name
             source_name == table.name
             columns     == IF source_name \in DOMAIN cte_definitions(expr)
                            THEN cte_definitions(expr)[source_name]
                            ELSE schema_find(schema, table)
         IN  scope_columns_from(expr, schema, i + 1,
                IF columns # {}
                THEN SetItem(SetItem(scope_columns, alias, columns),
                             source_name, columns)
                ELSE scope_columns)

\* Mutant: the columns are emitted in descending order.
replace_star_arg_descending(arg, scope_columns) ==
    IF arg.type = "Column" /\ arg.this = Star /\ arg.table \in DOMAIN scope_columns
    THEN LET sorted_cols == DescendingList(scope_columns[arg.table])
         IN  TupleOf([k \in 1..Len(sorted_cols) |-> Column(sorted_cols[k], arg.table)])
    ELSE arg

\* Mutant: every alias.* is replaced, by the empty tuple when no column set
\* is registered for the alias.
replace_star_arg_any_alias(arg, scope_columns) ==
    IF arg.type = "Column" /\ arg.this = Star
    THEN LET sorted_cols == IF arg.table \in DOMAIN scope_columns
                            THEN SortedList(scope_columns[arg.table]) ELSE <<>>
         IN  TupleOf([k \in 1..Len(sorted_cols) |-> Column(sorted_cols[k], arg.table)])
    ELSE arg

\* The body of the loop of _replace_star_args for one argument.
replace_star_arg(arg, scope_columns) ==
    IF arg.type = "Column" /\ arg.this = Star /\ arg.table \in DOMAIN scope_columns
    THEN LET alias       == arg.table
             sorted_cols == SortedList(scope_columns[alias])
         IN  TupleOf([k \in 1..Len(sorted_cols) |-> Column(sorted_cols[k], alias)])
    ELSE arg

\* for arg in func.args.get("expressions", []): ...
replace_star_args(func, scope_columns) ==
    [func EXCEPT !.expressions =
        [k \in 1..Len(func.expressions) |->
            replace_star_arg(func.expressions[k], scope_columns)]]

qualify_stars_inside_functions(expr, schema) ==
    LET scope_columns == scope_columns_from(expr, schema, 1, <<>>)
    IN  [expr EXCEPT !.funcs =
            [k \in 1..Len(expr.funcs) |-> replace_star_args(expr.funcs[k], scope_columns)]]

-----------------------------------------------------------------------------
(* SpecStar: the star expander applied to bounded statements and Catalogs  *)

ColumnNames == { <<"a">>, <<"b">>, <<"a", "b">> }

\* The columns of a table or of a CTE select list in their declared order.
DeclaredOrders ==
    { order \in UNION { [1..n -> ColumnNames] : n \in 0..MaxColumns } :
        \A i, j \in 1..Len(order) : i # j => order[i] # order[j] }

\* A table reference of the outer SELECT, and one of a subquery of it
TableAs(alias_or_name, name) ==
    [alias_or_name |-> alias_or_name, name |-> name, parent_select |-> "outer"]

TableInSubquery(alias_or_name, name) ==
    [alias_or_name |-> alias_or_name, name |-> name, parent_select |-> "subquery"]

\* FROM u AS x (a Catalog table), FROM c (the CTE), FROM v AS y (a table the
\* Catalog does not hold), and FROM u AS x WHERE EXISTS (SELECT .. FROM c AS x);
\* find_all walks breadth first, the subquery's reference comes last.  The
\* function calls stand in the select list of the outer SELECT.
TableLists ==
    { << TableAs("x", "u") >>,
      << TableAs("c", "c") >>,
      << TableAs("x", "u"), TableAs("c", "c") >>,
      << TableAs("x", "u"), TableAs("y", "v") >>,
      << TableAs("c", "c"), TableAs("x", "u"), TableAs("y", "v") >>,
      << TableAs("x", "u"), TableInSubquery("x", "c") >> }

Arguments ==
    { Column(Star, "x"), Column(Star, "c"), Column(Star, "y"), Column(Star, "u"),
      Column(<<"a">>, "x") }

ArgumentLists == UNION { [1..n -> Arguments] : n \in 1..MaxArgs }

\* f(args) kept as an anonymous function, and a function such as COUNT(args)
\* whose class keeps its first argument in args["this"].
Functions ==
    { Func(None, args) : args \in ArgumentLists }
        \cup { Func(args[1], Tail(args)) : args \in ArgumentLists }

StarInit ==
    /\ CallsIdle
    /\ TraceIdle
    /\ DepsIdle
    /\ MainIdle
    /\ DialectIdle
    /\ \E cte \in DeclaredOrders, tables \in TableLists, func \in Functions :
          select_statement = [ctes |-> ("c" :> cte), tables |-> tables,
                              funcs |-> <<func>>]
    /\ \E declared \in DeclaredOrders : schema_columns = ("u" :> declared)
    /\ expanded_select = <<>>
    /\ xpc = "input"

ExpandStars ==
    /\ xpc = "input"
    /\ expanded_select' = qualify_stars_inside_functions(select_statement, schema_columns)
    /\ xpc' = "expanded"
    /\ UNCHANGED <<select_statement, schema_columns>>
    /\ UNCHANGED <<tvars, dvars, mvars, qvars, cvars>>

StarNext == ExpandStars

SpecStar == StarInit /\ [][StarNext]_vars

-----------------------------------------------------------------------------
(* Claims on the star expander *)

\* The column set of one table reference: from the CTE's select list when
\* the referenced name is that of a CTE, else from the Catalog.
ColumnsOfRef(expr, schema, t) ==
    IF t.name \in DOMAIN expr.ctes THEN Elements(expr.ctes[t.name])
    ELSE IF t.name \in DOMAIN schema THEN Elements(schema[t.name])
    ELSE {}

\* The column set registered for a name: that of the last table reference
\* with a column set that bears the name as its alias or as its base name.
RegisteredColumns(expr, schema, alias) ==
    LET refs == { i \in 1..Len(expr.tables) :
                    /\ alias \in {expr.tables[i].alias_or_name, expr.tables[i].name}
                    /\ ColumnsOfRef(expr, schema, expr.tables[i]) # {} }
    IN  IF refs = {} THEN {}
        ELSE ColumnsOfRef(expr, schema,
                expr.tables[CHOOSE i \in refs : \A j \in refs : j <= i])

IsStarOf(arg) == arg.type = "Column" /\ arg.this = Star

\* res is one tuple of the column references alias.c, one for each column of
\* the set, in strictly ascending order of column name.
IsSortedTupleOf(res, alias, columns) ==
    /\ res.type = "Tuple"
    /\ \A k \in 1..Len(res.expressions) :
          /\ res.expressions[k].type = "Column"
          /\ res.expressions[k].table = alias
    /\ { res.expressions[k].this : k \in 1..Len(res.expressions) } = columns
    /\ \A k \in 1..(Len(res.expressions) - 1) :
          StrLess(res.expressions[k].this, res.expressions[k + 1].this)

Expanded(before, after) ==
    (IsStarOf(before)
       /\ RegisteredColumns(select_statement, schema_columns, before.table) # {})
    => IsSortedTupleOf(after, before.table,
          RegisteredColumns(select_statement, schema_columns, before.table))

-----------------------------------------------------------------------------
(* Claims on the defaults and on the lists of the report *)

\* The positions of the SET search_path directives of a script.
SearchPathDirectives(sc) ==
    { i \in 1..Len(sc.expressions) :
        /\ sc.expressions[i].kind = "Set"
        /\ sc.expressions[i].items > 0
        /\ sc.expressions[i].this_type = "EQ"
        /\ sc.expressions[i].left = "search_path" }

\* C14: the default schema of a call on a script with several SET search_path
\* directives is the schema of the last directive in script order.
C14_LastSearchPathWins ==
    (pc = "loop" /\ Cardinality(SearchPathDirectives(script)) > 1) =>
        LET last == CHOOSE i \in SearchPathDirectives(script) :
                       \A j \in SearchPathDirectives(script) : j <= i
        IN  call_default_schema = script.expressions[last].right

\* CREATE TABLE t AS SELECT a FROM base
ScriptFromBase ==
    ParsedScript(<< CreateTableAs(Target("Table", <<"t">>), SelectFromBase) >>)

\* C15: with the Catalog holding only d.s.base (column a), the report of the
\* script CREATE TABLE t AS SELECT a FROM base has the lineage key d.s.t and
\* the lineage list of its column a is exactly [d.s.base.a].
C15_UnqualifiedNamesResolved ==
    \A k \in 1..Len(reports) :
       (reports[k].script = ScriptFromBase /\ schema_mapping = << <<"d">> >>) =>
          LET key == <<"d", ".", "s", ".", "t">>
          IN  /\ ~reports[k].raised
              /\ key \in DOMAIN reports[k].lineage
              /\ <<"a">> \in DOMAIN reports[k].lineage[key].columns
              /\ reports[k].lineage[key].columns[<<"a">>].lineage =
                    << <<"d", ".", "s", ".">> \o BaseName \o <<".", "a">> >>

\* Ascending with no element twice
StrictlyAscending(list) ==
    \A i \in 1..(Len(list) - 1) : StrLess(list[i], list[i + 1])

\* C16: in every report each depends_on list and each column's lineage list
\* is in ascending order and holds no element twice.
C16_ListsSortedAndDistinct ==
    \A k \in 1..Len(reports) :
       \A key \in DOMAIN reports[k].lineage :
          /\ StrictlyAscending(reports[k].lineage[key].depends_on)
          /\ \A c \in DOMAIN reports[k].lineage[key].columns :
                StrictlyAscending(reports[k].lineage[key].columns[c].lineage)

\* A report of a statement in which two table references and two dependency
\* nodes give the same string, and a report with lists of two entries.
C16_Witness ==
    /\ schema_mapping = << <<"d">> >>
    /\ \E k \in 1..Len(reports) :
          /\ ~reports[k].raised
          /\ Len(reports[k].script.expressions) = 2
          /\ reports[k].script.expressions[1] =
                CreateTableAs(Target("Table", <<"t">>), SelectTwice)
          /\ reports[k].script.expressions[2] =
                CreateTableAs(Target("Table", <<"p">>), SelectColumnFails)
          /\ \E key \in DOMAIN reports[k].lineage :
                /\ Len(reports[k].lineage[key].depends_on) = 1
                /\ Len(reports[k].lineage[key].columns[<<"a">>].lineage) = 1
          /\ \E key \in DOMAIN reports[k].lineage :
                Len(reports[k].lineage[key].depends_on) = 2

\* s.split('.')
RECURSIVE Split(_)
Split(s) ==
    IF \A i \in 1..Len(s) : s[i] # Dot THEN <<s>>
    ELSE LET i == CHOOSE j \in 1..Len(s) :
                     s[j] = Dot /\ \A h \in 1..(j - 1) : s[h] # Dot
         IN  <<SubSeq(s, 1, i - 1)>> \o Split(SubSeq(s, i + 1, Len(s)))

Present(own, default) ==
    IF own # NoStr THEN <<own>> ELSE IF default # NoStr THEN <<default>> ELSE <<>>

\* The parts of the FQN of a table reference
PresentParts(t, ddb, dsch) ==
    Present(t.catalog, ddb) \o Present(t.db, dsch) \o <<t.name>>

\* C17: the FQN of a table reference is made of the catalog and the schema of
\* the reference, or the default where the reference has none, and the table
\* name, joined with '.': one to three segments, the last one the table name,
\* a part absent in the reference and in the defaults left out.
C17_FqnParts ==
    dpc = "collected" =>
        /\ \A t \in tree.tables :
              t.name \notin tree.ctes =>
                 \E e \in Elements(depends_on) :
                    Split(e) = PresentParts(t, d_default_db, d_default_schema)
        /\ \A e \in Elements(depends_on) :
              /\ Len(Split(e)) \in 1..3
              /\ \A n \in 1..Len(Split(e)) : Split(e)[n] # NoStr
              /\ \E t \in tree.tables :
                    /\ Split(e)[Len(Split(e))] = t.name
                    /\ Split(e) = PresentParts(t, d_default_db, d_default_schema)

\* FQNs of one, two and three segments have been built without defaults.
C17_Witness ==
    /\ dpc = "collected"
    /\ d_default_db = NoStr /\ d_default_schema = NoStr
    /\ { Len(Split(depends_on[n])) : n \in 1..Len(depends_on) } = {1, 2, 3}

-----------------------------------------------------------------------------
(* Claims on the classification of nodes and on the recursion *)

\* The alias-to-FQN map of the statement the graphs belong to, whose one
\* aliased table reference is d.s.u AS p.
TableAliasMap == (<<"p">> :> <<"d", ".", "s", ".", "u">>)

IsPlaceholder(node) == node.expression.type = "Placeholder"

\* A placeholder node whose alias the map holds
Resolvable(node) == IsPlaceholder(node) /\ Split(node.name)[1] \in DOMAIN TableAliasMap

IsTerminal(node) == node.expression.type = "Table" \/ Resolvable(node)

\* Nodes entered from the root through nodes that are not terminal.
RECURSIVE EnteredThrough(_, _, _)
EnteredThrough(g, R, k) ==
    IF k = 0 THEN R
    ELSE EnteredThrough(g,
            R \cup { j \in DOMAIN g :
                       \E i \in R : (i = 1 \/ ~IsTerminal(g[i])) /\ j \in g[i].downstream },
            k - 1)

\* C18: a reachable placeholder node whose alias is in the alias-to-FQN map
\* of the statement gives 'FQN.column' for the looked-up FQN and ends its
\* path; a placeholder node whose alias is not in the map is intermediate.
C18_PlaceholderResolved ==
    tpc = "traced" =>
        final_sources =
           { IF Resolvable(graph[n])
             THEN TableAliasMap[Split(graph[n].name)[1]]
                     \o <<Dot>> \o Split(graph[n].name)[2]
             ELSE RefFqn(graph[n].expression, t_default_db, t_default_schema)
                     \o <<Dot>> \o LastSegment(graph[n].name)
             : n \in { m \in EnteredThrough(graph, {1}, Len(graph)) \ {1} :
                          IsTerminal(graph[m]) } }

\* C20: a node on which several paths reconverge has its subgraph processed
\* once, and the set returned is that of the nodes reachable through
\* non-table nodes.
C20_SubgraphProcessedOnce ==
    tpc = "traced" =>
        /\ \A n \in DOMAIN graph : trace_calls(graph, 1, n) <= 1
        /\ final_sources = ExpectedSources(graph, t_default_db, t_default_schema)

\* The depth of the recursion of the trace of a graph: the root's call and
\* the longest chain of nested calls on non-table nodes beneath it.
RECURSIVE RecursionDepth(_, _)
RecursionDepth(g, n) ==
    LET below == { RecursionDepth(g, p) :
                     p \in { q \in g[n].downstream : g[q].expression.type # "Table" } }
    IN  1 + (IF below = {} THEN 0
             ELSE CHOOSE d \in below : \A e \in below : e <= d)

-----------------------------------------------------------------------------
(* SpecCalls: two generate_lineage calls on one parser instance whose      *)
(* steps interleave.  self.errors is an attribute of the instance: each    *)
(* call binds it to a new dict and later reads the attribute again.        *)

Callers == {1, 2}

CallScripts ==
    { ParsedScript(<< CreateTableUnanalyzable(Target("Table", <<"o">>)) >>),
      ParsedScript(<< CreateTableAs(Target("Table", <<"p">>), SelectColumnFails) >>),
      ParsedScript(<< CreateTableAs(Target("Table", <<"o">>), SelectSimple) >>),
      UnparsableScript }

\* The local variables of a call
Frame(s) ==
    [pc |-> "start", script |-> s, idx |-> 1, default_db |-> NoStr,
     default_schema |-> NoStr, lineage_nodes |-> <<>>]

\* _build_final_output: "errors" is the dict self.errors is bound to now
ReportOf(c, dicts) ==
    [caller |-> c, script |-> calls[c].script, errors |-> Len(dicts),
     lineage |-> calls[c].lineage_nodes]

CallsInit ==
    /\ TraceIdle
    /\ DepsIdle
    /\ MainIdle
    /\ DialectIdle
    /\ StarIdle
    /\ error_dicts = << <<>> >>
    /\ calls \in [Callers -> { Frame(s) : s \in CallScripts }]
    /\ returned = <<>>

\* Lines 326-338 of the call of caller c
CallBegin(c) ==
    /\ calls[c].pc = "start"
    /\ LET s     == calls[c].script
           fresh == Append(error_dicts, ResetErrors(error_dicts[Len(error_dicts)]))
           found == find_default_schema(s.expressions, 1)
       IN  IF s.parse_raises
           THEN /\ error_dicts' =
                      [fresh EXCEPT ![Len(fresh)] = SetItem(@, ScriptKey, <<ScriptMessage>>)]
                /\ returned' = Append(returned, ReportOf(c, fresh))
                /\ calls' = [calls EXCEPT ![c].pc = "done"]
           ELSE /\ error_dicts' = fresh
                /\ UNCHANGED returned
                /\ calls' = IF found.raised
                            THEN [calls EXCEPT ![c].pc = "done"]
                            ELSE [calls EXCEPT ![c].pc = "loop",
                                               ![c].default_schema = found.value,
                                               ![c].default_db = FirstCatalog(schema_mapping)]
    /\ UNCHANGED <<tvars, dvars, mvars, qvars, xvars>>

\* Lines 340-344: one turn of the statement loop of caller c
CallStatement(c) ==
    /\ calls[c].pc = "loop"
    /\ calls[c].idx <= Len(calls[c].script.expressions)
    /\ LET expr == calls[c].script.expressions[calls[c].idx]
           out  == IF IsCreateTable(expr)
                   THEN process_create_statement(expr, calls[c].default_db,
                           calls[c].default_schema, error_dicts[Len(error_dicts)],
                           calls[c].lineage_nodes)
                   ELSE [raised |-> FALSE, errors |-> error_dicts[Len(error_dicts)],
                         lineage_nodes |-> calls[c].lineage_nodes]
       IN  /\ error_dicts' = [error_dicts EXCEPT ![Len(error_dicts)] = out.errors]
           /\ calls' = [calls EXCEPT ![c].lineage_nodes = out.lineage_nodes,
                                     ![c].idx = @ + 1,
                                     ![c].pc = IF out.raised THEN "done" ELSE "loop"]
    /\ UNCHANGED returned
    /\ UNCHANGED <<tvars, dvars, mvars, qvars, xvars>>

\* Line 346 of the call of caller c
CallReturn(c) ==
    /\ calls[c].pc = "loop"
    /\ calls[c].idx > Len(calls[c].script.expressions)
    /\ returned' = Append(returned, ReportOf(c, error_dicts))
    /\ calls' = [calls EXCEPT ![c].pc = "done"]
    /\ UNCHANGED error_dicts
    /\ UNCHANGED <<tvars, dvars, mvars, qvars, xvars>>

CallsNext == \E c \in Callers : CallBegin(c) \/ CallStatement(c) \/ CallReturn(c)

SpecCalls == CallsInit /\ [][CallsNext]_vars

-----------------------------------------------------------------------------
(* Claims on the ownership of the maps *)

\* The statement loop of one call that runs alone.
RECURSIVE AloneLoop(_, _, _, _, _)
AloneLoop(sc, i, db, schema, acc) ==
    IF i > Len(sc.expressions) \/ acc.raised THEN acc
    ELSE AloneLoop(sc, i + 1, db, schema,
            IF IsCreateTable(sc.expressions[i])
            THEN process_create_statement(sc.expressions[i], db, schema,
                                          acc.errors, acc.lineage_nodes)
            ELSE acc)

\* The errors and the lineage of the report of a call that runs alone.
Alone(sc, db) ==
    IF sc.parse_raises
    THEN [raised |-> FALSE, errors |-> (ScriptKey :> <<ScriptMessage>>),
          lineage_nodes |-> <<>>]
    ELSE AloneLoop(sc, 1, db, find_default_schema(sc.expressions, 1).value,
                   [raised |-> FALSE, errors |-> <<>>, lineage_nodes |-> <<>>])

\* C21: at every moment the errors and the lineage of every report handed
\* back are those of its own call: what the call gives when it runs alone,
\* unchanged by and free of the messages of the other call.
C21_ReportOwnedByCall ==
    \A k \in 1..Len(returned) :
       /\ error_dicts[returned[k].errors] =
             Alone(returned[k].script, FirstCatalog(schema_mapping)).errors
       /\ returned[k].lineage =
             Alone(returned[k].script, FirstCatalog(schema_mapping)).lineage_nodes

-----------------------------------------------------------------------------
(* Claims on the order of the statements *)

\* Mutant: update that forgets what the map held.
update_replaces(a, b) == b

\* dict.update
update(a, b) ==
    [k \in DOMAIN a \cup DOMAIN b |-> IF k \in DOMAIN b THEN b[k] ELSE a[k]]

\* One turn of the statement loop as a function of the two maps.
loop_turn(expr, db, schema, acc) ==
    IF acc.raised \/ ~IsCreateTable(expr) THEN acc
    ELSE process_create_statement(expr, db, schema, acc.errors, acc.lineage_nodes)

NothingYet == [raised |-> FALSE, errors |-> <<>>, lineage_nodes |-> <<>>]

Orders(n) == { f \in [1..n -> 1..n] : \A i, j \in 1..n : f[i] = f[j] => i = j }

\* The statements analysed one after the other in the given order, on the
\* same two maps.
RECURSIVE InOrder(_, _, _, _, _, _)
InOrder(sc, order, n, db, schema, acc) ==
    IF n > Len(order) THEN acc
    ELSE InOrder(sc, order, n + 1, db, schema,
                 loop_turn(sc.expressions[order[n]], db, schema, acc))

\* Every statement analysed by a task of its own on two empty maps, and the
\* results merged in the given order of completion.
RECURSIVE MergedTasks(_, _, _, _, _, _)
MergedTasks(sc, order, n, db, schema, acc) ==
    IF n > Len(order) THEN acc
    ELSE LET task == loop_turn(sc.expressions[order[n]], db, schema, NothingYet)
         IN  MergedTasks(sc, order, n + 1, db, schema,
                [raised |-> acc.raised \/ task.raised,
                 errors |-> [key \in DOMAIN acc.errors \cup DOMAIN task.errors |->
                               ErrorsUnder(acc.errors, key) \o ErrorsUnder(task.errors, key)],
                 lineage_nodes |-> update(acc.lineage_nodes, task.lineage_nodes)])

SameMaps(res, r) ==
    /\ res.raised = r.raised
    /\ ~r.raised => res.errors = r.errors /\ res.lineage_nodes = r.lineage

DistinctTargets(sc) ==
    \A i, j \in AnalysedIn(sc) : i # j => TargetKey(sc, i) # TargetKey(sc, j)

\* The report just handed back.  The list of reports only grows and a report
\* is appended by the step that ends its call, so every report is the last of
\* the list in a state between two calls.
Newest == IF pc = "idle" /\ reports # <<>> THEN {Len(reports)} ELSE {}

\* C22: for a script whose CREATE TABLE AS statements have pairwise distinct
\* target FQNs, the statements analysed in any order on the same maps, or
\* each by a task of its own with the results merged, give the errors map and
\* the lineage map of the report of the call (no report when a statement
\* raises, in every order).
C22_OrderIndependent ==
    \A k \in Newest :
       LET r  == reports[k]
           sc == r.script
           db == FirstCatalog(schema_mapping)
       IN  (~sc.parse_raises /\ ~ScanRaises(sc) /\ DistinctTargets(sc)) =>
              \A order \in Orders(Len(sc.expressions)) :
                 /\ SameMaps(InOrder(sc, order, 1, db, ScriptSchema(sc), NothingYet), r)
                 /\ SameMaps(MergedTasks(sc, order, 1, db, ScriptSchema(sc), NothingYet), r)

\* A report of two statements with different targets, the first one failed
\* and the second one written to lineage.
C22_Witness ==
    \E k \in 1..Len(reports) :
       /\ ~reports[k].raised
       /\ Len(reports[k].script.expressions) = 2
       /\ AnalysedIn(reports[k].script) = {1, 2}
       /\ DistinctTargets(reports[k].script)
       /\ reports[k].script.expressions[1].optimize_raises
       /\ TargetKey(reports[k].script, 1) \in DOMAIN reports[k].errors
       /\ TargetKey(reports[k].script, 2) \in DOMAIN reports[k].lineage

-----------------------------------------------------------------------------
(* analyze_directory: the reports of the files merged into one *)

\* [f"[{basename}] {e}" for e in errors]: the file is the k-th of the run
error_messages(k, errors) ==
    [n \in 1..Len(errors) |-> [file |-> k, message |-> errors[n]]]

\* Lines 162-168 for the k-th file and the files after it.
RECURSIVE merge_reports(_, _, _)
merge_reports(rs, k, final_report) ==
    IF k > Len(rs) THEN final_report
    ELSE merge_reports(rs, k + 1,
            [lineage |-> update(final_report.lineage, rs[k].lineage),
             errors |->
                [table \in DOMAIN final_report.errors \cup DOMAIN rs[k].errors |->
                    ErrorsUnder(final_report.errors, table)
                       \o error_messages(k, ErrorsUnder(rs[k].errors, table))]])

analyze_directory(rs) == merge_reports(rs, 1, [lineage |-> <<>>, errors |-> <<>>])

\* The entry a statement produces.
EntryOf(sc, i) ==
    loop_turn(sc.expressions[i], FirstCatalog(schema_mapping), ScriptSchema(sc),
              NothingYet).lineage_nodes

\* CREATE TABLE AS statements whose analysis writes an entry
Successful(sc) == { i \in AnalysedIn(sc) : EntryOf(sc, i) # <<>> }

\* C23: with pairwise distinct keys, the lineage map of a report holds the
\* entry of every successfully analysed statement of its script exactly as
\* produced and nothing else, and the lineage map merged over the files holds
\* every entry of every file's report exactly as reported and nothing else.
C23_PlainUnion ==
    /\ \A k \in Newest :
          LET r == reports[k] IN
          (~r.raised /\ ~r.script.parse_raises /\ DistinctTargets(r.script)) =>
             /\ DOMAIN r.lineage = { TargetKey(r.script, i) : i \in Successful(r.script) }
             /\ \A i \in Successful(r.script) :
                   r.lineage[TargetKey(r.script, i)] =
                      EntryOf(r.script, i)[TargetKey(r.script, i)]
    /\ ( /\ \A k \in 1..Len(reports) : ~reports[k].raised
         /\ \A j, k \in 1..Len(reports) :
               j # k => DOMAIN reports[j].lineage \cap DOMAIN reports[k].lineage = {} )
       => LET final_report == analyze_directory(reports)
          IN  /\ DOMAIN final_report.lineage =
                    UNION { DOMAIN reports[k].lineage : k \in 1..Len(reports) }
              /\ \A k \in 1..Len(reports) : \A key \in DOMAIN reports[k].lineage :
                    final_report.lineage[key] = reports[k].lineage[key]

\* Two files with different tables have been analysed, the first one with two
\* statements that were both written.
C23_Witness ==
    /\ Len(reports) = 2
    /\ ~reports[1].raised /\ ~reports[2].raised
    /\ Cardinality(DOMAIN reports[1].lineage) = 2
    /\ reports[2].lineage # <<>>
    /\ DOMAIN reports[1].lineage \cap DOMAIN reports[2].lineage = {}

-----------------------------------------------------------------------------
(* Claims on the columns map *)

\* The loop is about to analyse a statement whose optimize pass succeeds.
AtOptimizedStatement ==
    /\ pc = "loop"
    /\ idx <= Len(script.expressions)
    /\ Analysed(script.expressions[idx])
    /\ script.expressions[idx].this.type = "Table"
    /\ ~script.expressions[idx].optimize_raises

\* How many times a message stands in a list
Occurrences(list, msg) == Cardinality({ n \in 1..Len(list) : list[n] = msg })

\* C24: analysing a statement writes its entry with depends_on; a selected
\* column is a key of the entry's columns map exactly when its trace did not
\* fail and gave a non-empty set of sources, and a column whose trace gave
\* the empty set is left out without a message.
C24_ColumnKeyIffSources ==
    [][ AtOptimizedStatement =>
          LET sel == script.expressions[idx].optimized_select
              key == TargetKey(script, idx)
          IN  /\ key \in DOMAIN lineage_nodes'
              /\ lineage_nodes'[key].depends_on =
                    SortedList(Dependencies(sel, call_default_db, call_default_schema))
              /\ DOMAIN lineage_nodes'[key].columns \subseteq Elements(sel.selects)
              /\ \A c \in Elements(sel.selects) :
                    /\ c \in DOMAIN lineage_nodes'[key].columns
                          <=> (~ColumnFails(sel, c) /\ ColumnSources(script, sel, c) # {})
                    /\ (~ColumnFails(sel, c) /\ ColumnSources(script, sel, c) = {})
                          => Occurrences(ErrorsUnder(self_errors', key), ColumnMessage(c))
                               = Occurrences(ErrorsUnder(self_errors, key), ColumnMessage(c))
      ]_vars

\* A statement with the constant column n has just been analysed: its entry
\* is written with depends_on, with column a and without column n, and no
\* message stands under its key.
C24_Witness ==
    /\ pc = "loop"
    /\ idx > 1
    /\ script.expressions[idx - 1] = CreateTableAs(Target("Table", <<"p">>), SelectThroughCte)
    /\ TargetKey(script, idx - 1) \in DOMAIN lineage_nodes
    /\ lineage_nodes[TargetKey(script, idx - 1)].depends_on # <<>>
    /\ DOMAIN lineage_nodes[TargetKey(script, idx - 1)].columns = { <<"a">> }
    /\ TargetKey(script, idx - 1) \notin DOMAIN self_errors

-----------------------------------------------------------------------------
(* Claims on what the star expander leaves alone *)

HasRegisteredStar(arg) ==
    /\ IsStarOf(arg)
    /\ RegisteredColumns(select_statement, schema_columns, arg.table) # {}

\* C25: the pass leaves the tree it was handed as it was; in its result every
\* argument that is not alias.* with a registered column set stands unchanged
\* at its position, a call without such an argument is unchanged, nothing but
\* function arguments is changed, and alias.* over a table that is neither a
\* CTE nor in the Catalog is not expanded.
C25_OnlyRegisteredStarsChange ==
    [][ xpc = "input" =>
          /\ select_statement' = select_statement
          /\ xpc' = "expanded"
          /\ expanded_select'.ctes = select_statement.ctes
          /\ expanded_select'.tables = select_statement.tables
          /\ Len(expanded_select'.funcs) = Len(select_statement.funcs)
          /\ \A f \in 1..Len(select_statement.funcs) :
                LET before == select_statement.funcs[f]
                    after  == expanded_select'.funcs[f]
                IN  /\ after.type = before.type
                    /\ after.this = before.this
                    /\ Len(after.expressions) = Len(before.expressions)
                    /\ \A k \in 1..Len(before.expressions) :
                          /\ ~HasRegisteredStar(before.expressions[k])
                                => after.expressions[k] = before.expressions[k]
                          /\ ( /\ IsStarOf(before.expressions[k])
                               /\ \A t \in Elements(select_statement.tables) :
                                     before.expressions[k].table \in {t.alias_or_name, t.name}
                                        => /\ t.name \notin DOMAIN select_statement.ctes
                                           /\ t.name \notin DOMAIN schema_columns )
                                => after.expressions[k] = before.expressions[k]
                    /\ (\A k \in 1..Len(before.expressions) :
                           ~HasRegisteredStar(before.expressions[k]))
                          => after = before
      ]_vars

\* A call f(y.*, x.*) over FROM u AS x, v AS y has been expanded: y.* of the
\* unknown table v stands as it was and x.* is a tuple.
C25_Witness ==
    /\ xpc = "expanded"
    /\ TableAs("y", "v") \in Elements(select_statement.tables)
    /\ select_statement.funcs[1].expressions = << Column(Star, "y"), Column(Star, "x") >>
    /\ expanded_select.funcs[1].expressions[1] = Column(Star, "y")
    /\ expanded_select.funcs[1].expressions[2].type = "Tuple"
    /\ expanded_select.funcs[1].expressions[2].expressions # <<>>

-----------------------------------------------------------------------------
(* Claims on the table an alias denotes *)

ColumnsIn(res) == { res.expressions[k].this : k \in 1..Len(res.expressions) }

\* C26: every alias.* that is expanded (the calls stand in the outer SELECT)
\* gets the columns of the table reference of the outer SELECT that bears the
\* name as its alias or base name, the CTE's columns when the referenced name
\* is that of a CTE, also when a subquery uses the name for another table.
C26_ColumnsOfDenotedTable ==
    xpc = "expanded" =>
       \A f \in 1..Len(select_statement.funcs) :
          \A k \in 1..Len(select_statement.funcs[f].expressions) :
             LET before == select_statement.funcs[f].expressions[k]
                 after  == expanded_select.funcs[f].expressions[k]
             IN  (IsStarOf(before) /\ after # before) =>
                    \A t \in Elements(select_statement.tables) :
                       ( /\ t.parent_select = "outer"
                         /\ before.table \in {t.alias_or_name, t.name} )
                       => ColumnsIn(after) =
                             ColumnsOfRef(select_statement, schema_columns, t)

-----------------------------------------------------------------------------
(* Claims on the distribution property node *)

DistributionNodes(expression) == OfType(expression.properties, "DistributedByProperty")

EndsWith(text, tail) ==
    /\ Len(tail) <= Len(text)
    /\ SubSeq(text, Len(text) - Len(tail) + 1, Len(text)) = tail

\* C27: every distribution property node of a parsed CREATE TABLE has kind BY
\* with a column list of at least one column or kind RANDOMLY without
\* columns, and the generated text ends with the node's clause.
C27_DistributionNodeWellFormed ==
    (qpc # "input" /\ parsed_expression.type = "Create") =>
       \A n \in 1..Len(DistributionNodes(parsed_expression)) :
          LET node == DistributionNodes(parsed_expression)[n]
          IN  /\ \/ /\ node.kind = "BY"
                    /\ node.expressions.type # "None"
                    /\ Len(node.expressions.expressions) >= 1
                 \/ /\ node.kind = "RANDOMLY"
                    /\ node.expressions.type = "None"
              /\ (qpc # "parsed" /\ n = Len(DistributionNodes(parsed_expression)))
                    => EndsWith(generated_sql, Strip(distributedbyproperty_sql(node)))

-----------------------------------------------------------------------------
(* Claims on the two levels of a table entry *)

\* C28: in every table entry of a report, every string of a column's lineage
\* list is a name of the entry's depends_on followed by '.' and a column.
C28_LineageWithinDependsOn ==
    \A k \in 1..Len(reports) :
       \A key \in DOMAIN reports[k].lineage :
          LET entry == reports[k].lineage[key]
          IN  \A c \in DOMAIN entry.columns :
                 \A source \in Elements(entry.columns[c].lineage) :
                    \E table \in Elements(entry.depends_on) :
                       source = table \o <<Dot>> \o LastSegment(source)

-----------------------------------------------------------------------------
(* Claims on statements with one target *)

\* What statement i of the script leaves on two empty maps.
TurnOf(sc, i) ==
    loop_turn(sc.expressions[i], FirstCatalog(schema_mapping), ScriptSchema(sc),
              NothingYet)

\* The messages of the statements 1..n with the target key, in script order.
RECURSIVE MessagesOf(_, _, _)
MessagesOf(sc, key, n) ==
    IF n = 0 THEN <<>>
    ELSE MessagesOf(sc, key, n - 1)
            \o (IF n \in AnalysedIn(sc) /\ TargetKey(sc, n) = key
                THEN ErrorsUnder(TurnOf(sc, n).errors, key) ELSE <<>>)

\* C29: in every report, the lineage entry under a target FQN is the entry of
\* the last statement with that target whose analysis wrote one (no entry
\* when none did), and the error list under the FQN is made of the messages
\* of all statements with that target in script order.
C29_LaterEntryAllMessages ==
    \A k \in Newest :
       LET r  == reports[k]
           sc == r.script
       IN  (~r.raised /\ ~sc.parse_raises) =>
              \A i \in AnalysedIn(sc) :
                 LET key   == TargetKey(sc, i)
                     wrote == { j \in AnalysedIn(sc) :
                                  TargetKey(sc, j) = key /\ TurnOf(sc, j).lineage_nodes # <<>> }
                 IN  /\ ErrorsUnder(r.errors, key) = MessagesOf(sc, key, Len(sc.expressions))
                     /\ IF wrote = {} THEN key \notin DOMAIN r.lineage
                        ELSE /\ key \in DOMAIN r.lineage
                             /\ r.lineage[key] =
                                   TurnOf(sc, CHOOSE j \in wrote : \A h \in wrote : h <= j)
                                      .lineage_nodes[key]

\* A report of two statements with the target p: the first could not be
\* analysed, the second lost a column; the key p is in lineage with the
\* second statement's entry and in errors with both messages.
C29_Witness ==
    \E k \in 1..Len(reports) :
       /\ ~reports[k].raised
       /\ reports[k].script.expressions =
             << CreateTableUnanalyzable(Target("Table", <<"p">>)),
                CreateTableAs(Target("Table", <<"p">>), SelectColumnFails) >>
       /\ DOMAIN reports[k].lineage = DOMAIN reports[k].errors
       /\ \A key \in DOMAIN reports[k].errors :
             reports[k].errors[key] = << StatementMessage, ColumnMessage(<<"a">>) >>

-----------------------------------------------------------------------------
(* Claims on the moment the defaults are computed *)

\* The schemas named by the SET search_path directives of a script, wherever
\* they stand; the absent schema when there is none.
DirectiveSchemas(sc) ==
    IF SearchPathDirectives(sc) = {} THEN {NoStr}
    ELSE { sc.expressions[i].right : i \in SearchPathDirectives(sc) }

\* C30: while the statements of a script are analysed the default schema is
\* the one of a directive of the script, wherever it stands, or absent when
\* there is none, and the default catalog is the first name of the mapping,
\* absent for an empty one; no step of the loop changes the pair, and every
\* analysed statement files its result under the target name completed with
\* this pair.
C30_DefaultsFixedBeforeLoop ==
    [][ pc = "loop" =>
          /\ call_default_schema \in DirectiveSchemas(script)
          /\ call_default_db = IF schema_mapping = <<>> THEN NoStr ELSE schema_mapping[1]
          /\ pc' = "loop" =>
                /\ call_default_schema' = call_default_schema
                /\ call_default_db' = call_default_db
          /\ ( /\ idx <= Len(script.expressions)
               /\ Analysed(script.expressions[idx])
               /\ script.expressions[idx].this.type = "Table" )
             => RefFqn(script.expressions[idx].this, call_default_db, call_default_schema)
                   \in IF script.expressions[idx].optimize_raises
                       THEN DOMAIN self_errors' ELSE DOMAIN lineage_nodes'
      ]_vars

\* CREATE TABLE t AS SELECT a FROM base standing before SET search_path = s
\* has been filed under d.s.t.
C30_Witness ==
    /\ pc = "loop"
    /\ idx = 3
    /\ script.expressions[1] = CreateTableAs(Target("Table", <<"t">>), SelectFromBase)
    /\ script.expressions[2] = SetSearchPath(<<"s">>)
    /\ call_default_schema = <<"s">>
    /\ <<"d", ".", "s", ".", "t">> \in DOMAIN lineage_nodes

====
